---- MODULE Spec2Model ----
(***************************************************************************)
(* Harmonix job orchestration and shared content library.                  *)
(*                                                                         *)
(* The model covers the in-memory job registry (jobs_storage), the         *)
(* cancellation flags, the worker threads of the dashboard, the popular    *)
(* songs cache worker, and the shared library on disk (library/ and        *)
(* archive/ directories, metadata.json, per-user library_links.json).      *)
(***************************************************************************)
EXTENDS Integers, Sequences, FiniteSets, TLC

(* ------------------------------------------------------------------ *)
(* Bounds                                                              *)
(* ------------------------------------------------------------------ *)
MaxJobs == 2

(* separations the cache worker may start per id *)
MaxRuns == 1

(* nesting depth of a directory <id>/<id>/... *)
MaxDepth == 2

(* direct calls of link_to_user_library, and of unlink_from_user_library *)
MaxCalls == 3

(* URLs in one POST /batch-queue *)
MaxBatch == 2

(* threads that run handlers at the same time *)
MaxThreads == 2

JobNames == <<"j1", "j2", "j3", "j4", "j5", "j6">>

JobIds == {JobNames[i] : i \in 1..MaxJobs}

Users == {"alice", "bob"}

Callers == Users \cup {"root"}

Yids == {"y1"}

None == "None"

StemNames == {"vocals", "drums"}

(* URLs a client can post: two spellings of the same video, one URL of a   *)
(* supported site that carries no video id.                                *)
Urls ==
  { [site |-> "youtube.com", form |-> "watch", vid |-> "y1"],
    [site |-> "youtu.be", form |-> "short", vid |-> "y1"],
    [site |-> "soundcloud.com", form |-> "track", vid |-> None] }

(* ------------------------------------------------------------------ *)
(* State                                                               *)
(* ------------------------------------------------------------------ *)
VARIABLES
  jobs_storage,   \* job_id -> job record (a dict: its domain is the set of ids)
  nextJob,        \* how many job ids have been handed out (uuid4 is fresh)
  cancel_flags,   \* job_id -> is_set, for the registered flags
  links,          \* username -> (key -> youtube_id): library_links.json
  lib,            \* youtube_id -> directory library/<id>, as a chain of layers
  arch,           \* youtube_id -> directory archive/<date>/<id>
  wk,             \* job_id -> running worker thread of that job
  cancelH,        \* admin cancel requests in progress, by job_id
  cache,          \* youtube_id -> running cache_song call
  engineRuns,     \* youtube_id -> number of separations started into library/<id>
  calls,          \* how many direct library calls were made (history)
  library_lock,   \* library.library_lock: the thread that holds it, or None
  linkers,        \* username -> link_to_user_library call in progress for that owner
  outputs,        \* job_id -> the job's directory outputs/users/<owner>/<job_id>
  ent,            \* the submission whose stem entitlement is being worked out
  batch_queues,   \* username -> the user's pending batch entries, in order
  batch,          \* the running process_batch_queue threads
  jobs,           \* api/main.py: job_id -> job record of the REST API
  background_tasks,\* api/main.py: the scheduled process_separation_job tasks, by job_id
  api_call,       \* api/main.py: the last request handled and its response
  unlocked_writes,\* job ids whose record was written without jobs_lock held
  hits,           \* job_id -> library short-circuit of upload_from_url in progress
  jobs_lock,      \* dashboard.jobs_lock: the thread that holds it, or None
  batch_queue_lock,\* dashboard.batch_queue_lock: the thread that holds it, or None
  cancel_flags_lock,\* dashboard.cancel_flags_lock: the thread that holds it, or None
  threads          \* thread -> handler it runs and the lock operations it has still to do

vars == <<jobs_storage, nextJob, cancel_flags, links, lib, arch, wk, cancelH,
          cache, engineRuns, calls, library_lock, linkers, outputs,
          ent,
          batch_queues,
          batch,
          jobs,
          background_tasks,
          api_call,
          unlocked_writes,
          hits,
          jobs_lock,
          batch_queue_lock,
          cancel_flags_lock,
          threads>>

(* ------------------------------------------------------------------ *)
(* Directories.  A directory <id> can only ever contain one            *)
(* sub-directory, also named <id> (what shutil.move leaves behind when  *)
(* its destination exists), so a directory tree is a chain of layers:   *)
(* <<>> is "no such directory", dir[1] the directory itself, dir[2]     *)
(* its sub-directory <id>, and so on.                                   *)
(* ------------------------------------------------------------------ *)
NoMeta == [present |-> FALSE, usage_count |-> 0, stamped |-> FALSE]

EmptyLayer == [meta |-> NoMeta, orig |-> FALSE, stems |-> {}]

NoDir == <<>>

Exists(dir) == dir # NoDir

SetTop(dir, layer) == [dir EXCEPT ![1] = layer]

(* metadata.get("usage_count", 0) of the directory's metadata.json *)
UsageOf(dir) ==
  IF Exists(dir) /\ dir[1].meta.present THEN dir[1].meta.usage_count ELSE 0

(* shutil.move(src, dst): rename when dst does not exist; when dst is a   *)
(* directory the source lands inside it, unless dst/<id> exists already,  *)
(* and then shutil raises.                                                *)
MoveFails(src, dst) == Exists(dst) /\ Len(dst) >= 2

(* The files of a directory that has landed inside another one are never *)
(* read again: of a nested directory only its presence is kept.           *)
Nested(src) == [i \in 1..Len(src) |-> EmptyLayer]

MoveResult(src, dst) == IF Exists(dst) THEN <<dst[1]>> \o Nested(src) ELSE src

(* ------------------------------------------------------------------ *)
(* library.py.  The operators take and return the library's files:      *)
(* L = [links, lib, arch].                                              *)
(* ------------------------------------------------------------------ *)
Library == [links |-> links, lib |-> lib, arch |-> arch]

(* First match of the two patterns: watch?v=, youtu.be/, embed/, v/ and   *)
(* shorts/ carry an id; any other URL gives None.                         *)
extract_youtube_id(url) ==
  IF url.site \in {"youtube.com", "youtu.be"}
     /\ url.form \in {"watch", "short", "embed", "v", "shorts"}
     /\ url.vid \in Yids
  THEN url.vid
  ELSE None

required_files == {"instrumental", "vocals"}

(* metadata.json exists and a *_instrumental.* or *_vocals.* file exists *)
check_library_exists(L, y) ==
  /\ Exists(L.lib[y])
  /\ L.lib[y][1].meta.present
  /\ L.lib[y][1].stems \cap required_files # {}

(* the audio files found in library/<id>, by stem name *)
get_library_stems(L, y) ==
  IF Exists(L.lib[y])
  THEN L.lib[y][1].stems \cup (IF L.lib[y][1].orig THEN {"original"} ELSE {})
  ELSE {}

get_library_usage(L, y) == UsageOf(L.lib[y])

Max0(n) == IF n < 0 THEN 0 ELSE n

(* Reads usage_count (0 when the file or the key is missing), adds or     *)
(* subtracts one, clamps at 0 and writes the file back; the write fails,  *)
(* and is swallowed, when library/<id> does not exist.                    *)
update_library_usage(L, y, increment) ==
  IF ~Exists(L.lib[y])
  THEN L
  ELSE LET top == L.lib[y][1]
           new_count == Max0(UsageOf(L.lib[y]) + (IF increment THEN 1 ELSE -1))
           meta == [present |-> TRUE, usage_count |-> new_count,
                    stamped |-> top.meta.present /\ top.meta.stamped]
       IN [L EXCEPT !.lib[y] = SetTop(@, [top EXCEPT !.meta = meta])]

(* A variant of link_to_user_library that counts a job_id only the first  *)
(* time it is linked.                                                     *)
link_once(L, username, y, job_id) ==
  IF username = None
  THEN L
  ELSE LET old == L.links[username]
           new == [k \in DOMAIN old \cup {job_id} |->
                     IF k = job_id THEN y ELSE old[k]]
           saved == [L EXCEPT !.links[username] = new]
       IN IF job_id \in DOMAIN old THEN saved
          ELSE update_library_usage(saved, y, TRUE)

(* links[job_id] = {youtube_id, ...}, saved, then the usage count is      *)
(* incremented.  Without a username the links file cannot be named and    *)
(* the call fails before it changes anything.                             *)
link_to_user_library(L, username, y, job_id) ==
  IF username = None
  THEN L
  ELSE LET old == L.links[username]
           new == [k \in DOMAIN old \cup {job_id} |->
                     IF k = job_id THEN y ELSE old[k]]
       IN update_library_usage([L EXCEPT !.links[username] = new], y, TRUE)

(* A variant of unlink_from_user_library that moves the entry to the     *)
(* archive when the count it wrote is 0.                                  *)
unlink_and_archive(L, username, job_id) ==
  IF username = None \/ job_id \notin DOMAIN L.links[username]
  THEN L
  ELSE LET old == L.links[username]
           y == old[job_id]
           new == [k \in DOMAIN old \ {job_id} |-> old[k]]
           U == update_library_usage([L EXCEPT !.links[username] = new], y, FALSE)
       IN IF Exists(U.lib[y]) /\ UsageOf(U.lib[y]) = 0 /\ ~Exists(U.arch[y])
          THEN [U EXCEPT !.lib[y] = NoDir, !.arch[y] = U.lib[y]]
          ELSE U

(* Pops links[job_id] when present and decrements the linked id's count. *)
unlink_from_user_library(L, username, job_id) ==
  IF username = None \/ job_id \notin DOMAIN L.links[username]
  THEN L
  ELSE LET old == L.links[username]
           y == old[job_id]
           new == [k \in DOMAIN old \ {job_id} |-> old[k]]
       IN update_library_usage([L EXCEPT !.links[username] = new], y, FALSE)

(* mkdir(exist_ok) and a fresh metadata.json with usage_count 0; files    *)
(* already in the directory stay.                                         *)
create_library_entry(L, y) ==
  LET meta == [present |-> TRUE, usage_count |-> 0, stamped |-> FALSE]
  IN IF Exists(L.lib[y])
     THEN [L EXCEPT !.lib[y] = SetTop(@, [@[1] EXCEPT !.meta = meta])]
     ELSE [L EXCEPT !.lib[y] = <<[EmptyLayer EXCEPT !.meta = meta]>>]

(* archived_at / archive_reason written into metadata.json, when there is one *)
Stamp(dir) ==
  IF dir[1].meta.present THEN SetTop(dir, [dir[1] EXCEPT !.meta.stamped = TRUE])
  ELSE dir

archive_refuses(L, y) ==
  \/ ~Exists(L.lib[y])
  \/ L.lib[y][1].meta.present /\ L.lib[y][1].meta.usage_count > 0

(* A variant of archive_library_item that copies the entry to the        *)
(* archive and leaves it in the library.                                  *)
archive_by_copy(L, y) ==
  IF archive_refuses(L, y)
  THEN [ok |-> FALSE, L |-> L]
  ELSE LET stamped == Stamp(L.lib[y])
       IN IF MoveFails(stamped, L.arch[y])
          THEN [ok |-> FALSE, L |-> [L EXCEPT !.lib[y] = stamped]]
          ELSE [ok |-> TRUE,
                L |-> [L EXCEPT !.lib[y] = stamped,
                                !.arch[y] = MoveResult(stamped, @)]]

(* ok: the call's return value; L: the files afterwards.  A refused call   *)
(* changes nothing; a failed move leaves the stamped entry in the library. *)
archive_library_item(L, y) ==
  IF archive_refuses(L, y)
  THEN [ok |-> FALSE, L |-> L]
  ELSE LET stamped == Stamp(L.lib[y])
       IN IF MoveFails(stamped, L.arch[y])
          THEN [ok |-> FALSE, L |-> [L EXCEPT !.lib[y] = stamped]]
          ELSE [ok |-> TRUE,
                L |-> [L EXCEPT !.lib[y] = NoDir,
                                !.arch[y] = MoveResult(stamped, @)]]

(* restored_at written, archived_at / archive_reason popped *)
Unstamp(dir) ==
  IF dir[1].meta.present THEN SetTop(dir, [dir[1] EXCEPT !.meta.stamped = FALSE])
  ELSE dir

restore_from_archive(L, y) ==
  IF ~Exists(L.arch[y]) \/ MoveFails(L.arch[y], L.lib[y])
  THEN [ok |-> FALSE, L |-> L]
  ELSE [ok |-> TRUE,
        L |-> [L EXCEPT !.lib[y] = Unstamp(MoveResult(L.arch[y], @)),
                        !.arch[y] = NoDir]]

(* A variant of permanently_delete_archived that falls back to the       *)
(* active entry when the archive has none.                                *)
delete_wherever(L, y) ==
  IF ~Exists(L.arch[y])
  THEN [ok |-> Exists(L.lib[y]), L |-> [L EXCEPT !.lib[y] = NoDir]]
  ELSE [ok |-> TRUE, L |-> [L EXCEPT !.arch[y] = NoDir]]

permanently_delete_archived(L, y) ==
  IF ~Exists(L.arch[y])
  THEN [ok |-> FALSE, L |-> L]
  ELSE [ok |-> TRUE, L |-> [L EXCEPT !.arch[y] = NoDir]]

(* directories nest no deeper than MaxDepth *)
DepthOk(L) ==
  \A y \in Yids : Len(L.lib[y]) <= MaxDepth /\ Len(L.arch[y]) <= MaxDepth

NoCalls == [link |-> 0, unlink |-> 0, removed |-> 0]

(* the library's files become L *)
SetLibrary(L) ==
  /\ links' = L.links
  /\ lib' = L.lib
  /\ arch' = L.arch


(* ------------------------------------------------------------------ *)
(* dashboard.py: the job registry and the cancellation flags            *)
(* ------------------------------------------------------------------ *)
Terminal == {"completed", "failed", "cancelled"}

IsAdmin(caller) == caller = "root"

HasJob(j) == j \in DOMAIN jobs_storage

NewJobId == JobNames[nextJob + 1]

(* jobs_storage[job_id] = record *)
PutJob(j, rec) ==
  jobs_storage' = [k \in DOMAIN jobs_storage \cup {j} |->
                     IF k = j THEN rec ELSE jobs_storage[k]]

(* del jobs_storage[job_id] *)
DelJob(j) ==
  jobs_storage' = [k \in DOMAIN jobs_storage \ {j} |-> jobs_storage[k]]

NewRecord(status, username) ==
  [status |-> status, progress |-> 0, user |-> username,
   youtube_video_id |-> None, is_library_link |-> FALSE,
   stems |-> {}, error |-> None, is_batch |-> FALSE]

(* outputs/users/<owner>/<job_id>: whose area it is in and the audio      *)
(* files *_<stem>.mp3 / .wav it holds, by stem name; no files, no directory *)
NoOutput == [user |-> None, files |-> {}]

(* files are written into the job's directory in the owner's area *)
WriteOutput(j, username, names) ==
  outputs' = [outputs EXCEPT ![j] = [user |-> username, files |-> @.files \cup names]]

(* shutil.rmtree(get_user_output_dir(job_owner) / job_id) *)
RemoveOutput(j, job_owner) ==
  outputs' = [outputs EXCEPT ![j] = IF @.user = job_owner THEN NoOutput ELSE @]

(* no submission is being looked at *)
NoRequest == [pc |-> "idle"]

(* no request has reached the REST API yet *)
NoCall == [op |-> "none", arg |-> None, code |-> 0, body |-> None]

(* cancel_flags[job_id] = threading.Event() *)
register_job_cancel_flag(flags, j) ==
  [k \in DOMAIN flags \cup {j} |-> IF k = j THEN FALSE ELSE flags[k]]

(* sets the flag when one is registered; the return value is RequestHit *)
request_job_cancel(flags, j) ==
  IF j \in DOMAIN flags THEN [flags EXCEPT ![j] = TRUE] ELSE flags

RequestHit(flags, j) == j \in DOMAIN flags

is_job_cancelled(flags, j) == j \in DOMAIN flags /\ flags[j]

cleanup_cancel_flag(flags, j) == [k \in DOMAIN flags \ {j} |-> flags[k]]

(* ------------------------------------------------------------------ *)
(* Worker threads                                                      *)
(* ------------------------------------------------------------------ *)

(* yid: extract_youtube_id of the job's URL; to_library: the job stores  *)
(* into library/<yid> (a YouTube id and not a preview).                  *)
Worker(kind, pc, yid, to_library, username) ==
  [kind |-> kind, pc |-> pc, yid |-> yid, to_library |-> to_library,
   user |-> username, result |-> "none", meta |-> NoMeta]

Running(j) == j \in DOMAIN wk

At(j, pc) == Running(j) /\ wk[j].pc = pc

Goto(j, pc) == wk' = [wk EXCEPT ![j].pc = pc]

(* an exception with this message is raised inside process_downloaded_audio *)
Raise(j, msg) == wk' = [wk EXCEPT ![j].pc = "pd_except", ![j].result = msg]

(* an exception with this message is raised in process_audio_async *)
Throw(j, msg) == wk' = [wk EXCEPT ![j].pc = "u_except", ![j].result = msg]

(* an exception with this message is raised in download_and_process_url *)
Fail(j, msg) == wk' = [wk EXCEPT ![j].pc = "dl_except", ![j].result = msg]

(* an exception with this message is caught and logged where it is       *)
(* raised, and the worker goes on at pc                                  *)
Swallow(j, msg, pc) == wk' = [wk EXCEPT ![j].pc = pc, ![j].result = msg]

(* the thread of job j ends *)
Exit(j) == wk' = [k \in DOMAIN wk \ {j} |-> wk[k]]

Start(j, w) == wk' = [k \in DOMAIN wk \cup {j} |-> IF k = j THEN w ELSE wk[k]]

(* ------------------------------------------------------------------ *)
(* Submission                                                          *)
(* ------------------------------------------------------------------ *)

(* POST /upload: a queued record and a process_audio_async thread *)
upload_file(username) ==
  /\ nextJob < MaxJobs
  /\ LET j == NewJobId
     IN /\ PutJob(j, NewRecord("queued", username))
        /\ Start(j, Worker("upload", "u_analyzing", None, FALSE, username))
  /\ nextJob' = nextJob + 1
  /\ UNCHANGED <<cancel_flags, links, lib, arch, cancelH, cache, engineRuns, calls, library_lock, linkers, outputs, ent, batch_queues, batch, jobs, background_tasks, api_call, unlocked_writes, hits, jobs_lock, batch_queue_lock, cancel_flags_lock, threads>>

(* POST /upload-url.  A library hit links the caller and creates the      *)
(* record as completed; otherwise the record starts as downloading and a  *)
(* download_and_process_url thread is started.                            *)
upload_from_url(username, url, preview) ==
  /\ nextJob < MaxJobs
  /\ LET j == NewJobId
         y == extract_youtube_id(url)
     IN IF y # None /\ check_library_exists(Library, y)
        THEN /\ SetLibrary(link_to_user_library(Library, username, y, j))
             /\ PutJob(j, [NewRecord("completed", username) EXCEPT
                             !.progress = 100,
                             !.stems = get_library_stems(Library, y),
                             !.youtube_video_id = y,
                             !.is_library_link = TRUE])
             /\ UNCHANGED wk
        ELSE /\ PutJob(j, NewRecord("downloading", username))
             /\ Start(j, Worker("url", "register", y, y # None /\ ~preview, username))
             /\ UNCHANGED <<links, lib, arch>>
  /\ nextJob' = nextJob + 1
  /\ UNCHANGED <<cancel_flags, cancelH, cache, engineRuns, calls, library_lock, linkers, outputs, ent, batch_queues, batch, jobs, background_tasks, api_call, unlocked_writes, hits, jobs_lock, batch_queue_lock, cancel_flags_lock, threads>>

(* ------------------------------------------------------------------ *)
(* upload_from_url, the library short-circuit step by step: the lookup  *)
(* and the stems read, then link_to_user_library, then the record.      *)
(* Nothing is locked from the lookup to the link.                       *)
(* ------------------------------------------------------------------ *)
HitFrame ==
  UNCHANGED <<cancel_flags, wk, cancelH, cache, engineRuns, calls, library_lock,
              linkers, outputs, ent, batch_queues, batch, jobs,
              background_tasks, api_call, unlocked_writes, jobs_lock, batch_queue_lock, cancel_flags_lock, threads>>

Hit(j, pc) == j \in DOMAIN hits /\ hits[j].pc = pc

(* check_library_exists(youtube_video_id) returns metadata: a job id is  *)
(* drawn and get_library_stems is read                                   *)
sc_lookup(username, url) ==
  /\ nextJob < MaxJobs
  /\ LET j == NewJobId
         y == extract_youtube_id(url)
     IN /\ y # None
        /\ check_library_exists(Library, y)
        /\ hits' = [k \in DOMAIN hits \cup {j} |->
                      IF k = j
                      THEN [pc |-> "link", user |-> username, yid |-> y,
                            stems |-> get_library_stems(Library, y)]
                      ELSE hits[k]]
  /\ nextJob' = nextJob + 1
  /\ UNCHANGED <<jobs_storage, links, lib, arch>>
  /\ HitFrame

(* shared_library.link_to_user_library(username, youtube_id, job_id) *)
sc_link(j) ==
  /\ Hit(j, "link")
  /\ SetLibrary(link_to_user_library(Library, hits[j].user, hits[j].yid, j))
  /\ hits' = [hits EXCEPT ![j].pc = "record"]
  /\ UNCHANGED <<jobs_storage, nextJob>>
  /\ HitFrame

(* with jobs_lock: the completed library-link record *)
sc_record(j) ==
  /\ Hit(j, "record")
  /\ PutJob(j, [NewRecord("completed", hits[j].user) EXCEPT
                  !.progress = 100,
                  !.stems = hits[j].stems,
                  !.youtube_video_id = hits[j].yid,
                  !.is_library_link = TRUE])
  /\ hits' = [k \in DOMAIN hits \ {j} |-> hits[k]]
  /\ UNCHANGED <<nextJob, links, lib, arch>>
  /\ HitFrame

(* ------------------------------------------------------------------ *)
(* download_and_process_url                                            *)
(* ------------------------------------------------------------------ *)
WorkerFrame == UNCHANGED <<nextJob, cancelH, cache, engineRuns, calls, library_lock, linkers, outputs, ent, batch_queues, batch, jobs, background_tasks, api_call, unlocked_writes, hits, jobs_lock, batch_queue_lock, cancel_flags_lock, threads>>

(* register_job_cancel_flag(job_id) *)
dl_register(j) ==
  /\ At(j, "register")
  /\ cancel_flags' = register_job_cancel_flag(cancel_flags, j)
  /\ Goto(j, "check1")
  /\ WorkerFrame
  /\ UNCHANGED <<jobs_storage, links, lib, arch>>

(* the first checkpoint, then create_library_entry for a YouTube id *)
dl_check1(j) ==
  /\ At(j, "check1")
  /\ IF cancel_flags[j]
     THEN /\ Fail(j, "Job cancelled by admin")
          /\ UNCHANGED <<links, lib, arch>>
     ELSE /\ Goto(j, "fetch")
          /\ IF wk[j].to_library
             THEN SetLibrary(create_library_entry(Library, wk[j].yid))
             ELSE UNCHANGED <<links, lib, arch>>
  /\ WorkerFrame
  /\ UNCHANGED <<jobs_storage, cancel_flags>>

(* progress 5, youtube_video_id (None for a preview) *)
dl_fetch(j) ==
  /\ At(j, "fetch")
  /\ IF HasJob(j)
     THEN /\ jobs_storage' = [jobs_storage EXCEPT
                ![j].progress = 5,
                ![j].youtube_video_id =
                   IF wk[j].to_library THEN wk[j].yid ELSE None]
          /\ Goto(j, "download")
     ELSE /\ Fail(j, "KeyError")
          /\ UNCHANGED jobs_storage
  /\ WorkerFrame
  /\ UNCHANGED <<cancel_flags, links, lib, arch>>

(* the downloaded audio, renamed <display_name>_original.<ext>; the      *)
(* download makes the output directory when it is missing                *)
WithOriginal(dir) ==
  IF Exists(dir) THEN SetTop(dir, [dir[1] EXCEPT !.orig = TRUE])
  ELSE <<[EmptyLayer EXCEPT !.orig = TRUE]>>

(* progress 10, then Source Acquisition: ydl.extract_info either raises   *)
(* or leaves the audio file in the job's output directory.                *)
dl_download(j) ==
  /\ At(j, "download")
  /\ IF HasJob(j)
     THEN /\ jobs_storage' = [jobs_storage EXCEPT ![j].progress = 10]
          /\ \E ok \in BOOLEAN :
               IF ok
               THEN /\ Goto(j, "set_analyzing")
                    /\ IF wk[j].to_library
                       THEN /\ lib' = [lib EXCEPT ![wk[j].yid] = WithOriginal(@)]
                            /\ UNCHANGED outputs
                       ELSE /\ WriteOutput(j, wk[j].user, {"original"})
                            /\ UNCHANGED lib
               ELSE /\ Fail(j, "DownloadError")
                    /\ UNCHANGED <<lib, outputs>>
     ELSE /\ Fail(j, "KeyError")
          /\ UNCHANGED <<jobs_storage, lib, outputs>>
  /\ UNCHANGED <<nextJob, cancelH, cache, engineRuns, calls, library_lock, linkers, ent, batch_queues, batch, jobs, background_tasks, api_call, unlocked_writes, hits, jobs_lock, batch_queue_lock, cancel_flags_lock, threads>>
  /\ UNCHANGED <<cancel_flags, links, arch>>

(* status analyzing, progress 15, youtube_video_id (preview or not) *)
dl_set_analyzing(j) ==
  /\ At(j, "set_analyzing")
  /\ IF HasJob(j)
     THEN /\ jobs_storage' = [jobs_storage EXCEPT
                ![j].status = "analyzing",
                ![j].progress = 15,
                ![j].youtube_video_id = wk[j].yid]
          /\ Goto(j, "read_meta")
     ELSE /\ Fail(j, "KeyError")
          /\ UNCHANGED jobs_storage
  /\ WorkerFrame
  /\ UNCHANGED <<cancel_flags, links, lib, arch>>

(* metadata.json of the output directory read, updated and written back: *)
(* usage_count and the archive stamps are whatever was read.               *)
(* json.load of metadata.json when the file exists, {} otherwise *)
ReadMeta(dir) ==
  IF Exists(dir) /\ dir[1].meta.present THEN dir[1].meta ELSE NoMeta

(* if youtube_video_id: the metadata is read before the update, the whole *)
(* file, usage_count included                                             *)
dl_read_meta(j) ==
  /\ At(j, "read_meta")
  /\ wk' = [wk EXCEPT ![j].pc = "save_meta",
                      ![j].meta = IF wk[j].to_library
                                  THEN ReadMeta(lib[wk[j].yid])
                                  ELSE NoMeta]
  /\ WorkerFrame
  /\ UNCHANGED <<jobs_storage, cancel_flags, links, lib, arch>>

(* json.dump of the metadata that was read, with the job's fields updated *)
SaveMeta(dir, meta) ==
  SetTop(dir, [dir[1] EXCEPT !.meta = [meta EXCEPT !.present = TRUE]])

(* the write raises when library/<id> has been moved away *)
dl_save_meta(j) ==
  /\ At(j, "save_meta")
  /\ IF wk[j].to_library
     THEN IF Exists(lib[wk[j].yid])
          THEN /\ lib' = [lib EXCEPT ![wk[j].yid] = SaveMeta(@, wk[j].meta)]
               /\ wk' = [wk EXCEPT ![j].pc = "analyze", ![j].meta = NoMeta]
          ELSE /\ Fail(j, "FileNotFoundError")
               /\ UNCHANGED lib
     ELSE /\ Goto(j, "analyze")
          /\ UNCHANGED lib
  /\ WorkerFrame
  /\ UNCHANGED <<jobs_storage, cancel_flags, links, arch>>

(* ------------------------------------------------------------------ *)
(* process_downloaded_audio                                            *)
(* ------------------------------------------------------------------ *)

(* The checkpoint before analysis, then the Analysis Engine: on success   *)
(* music_info and progress 20 are stored; an exception in that block (the *)
(* analysis raising, or the record missing) is logged and ignored.        *)
pd_analyze(j) ==
  /\ At(j, "analyze")
  /\ IF is_job_cancelled(cancel_flags, j)
     THEN /\ Raise(j, "Job cancelled by admin")
          /\ UNCHANGED jobs_storage
     ELSE \E ok \in BOOLEAN :
            IF ok /\ HasJob(j)
            THEN /\ jobs_storage' = [jobs_storage EXCEPT ![j].progress = 20]
                 /\ Goto(j, "set_processing")
            ELSE /\ UNCHANGED jobs_storage
                 /\ Swallow(j, "Music analysis failed", "set_processing")
  /\ WorkerFrame
  /\ UNCHANGED <<cancel_flags, links, lib, arch>>

(* create_orchestrator(auto_route, settings) has no preview_mode          *)
(* parameter: a call that passes one raises TypeError.                    *)
create_orchestrator(passes_preview_mode) == ~passes_preview_mode

(* The checkpoint before separation; status processing, progress 25; then *)
(* create_orchestrator(auto_route=True, preview_mode=preview_mode).       *)
pd_set_processing(j) ==
  /\ At(j, "set_processing")
  /\ IF is_job_cancelled(cancel_flags, j)
     THEN /\ Raise(j, "Job cancelled by admin")
          /\ UNCHANGED jobs_storage
     ELSE IF HasJob(j)
     THEN /\ jobs_storage' = [jobs_storage EXCEPT
                ![j].status = "processing", ![j].progress = 25]
          /\ IF create_orchestrator(TRUE)
             THEN Goto(j, "pd_engine")
             ELSE Raise(j, "TypeError")
     ELSE /\ UNCHANGED jobs_storage
          /\ Raise(j, "KeyError")
  /\ WorkerFrame
  /\ UNCHANGED <<cancel_flags, links, lib, arch>>

(* The except clause of process_downloaded_audio and its finally: the     *)
(* status is cancelled when the message holds "cancelled" and failed      *)
(* otherwise (a missing record raises KeyError, which goes on to the      *)
(* caller's except clause); then the cancellation flag is removed.        *)
pd_except(j) ==
  /\ At(j, "pd_except")
  /\ IF HasJob(j)
     THEN /\ jobs_storage' = [jobs_storage EXCEPT
                ![j].status = IF wk[j].result = "Job cancelled by admin"
                              THEN "cancelled" ELSE "failed",
                ![j].error = IF wk[j].result = "Job cancelled by admin"
                             THEN "Cancelled by admin" ELSE wk[j].result]
          /\ Goto(j, "link")
     ELSE /\ UNCHANGED jobs_storage
          /\ Fail(j, "KeyError")
  /\ cancel_flags' = cleanup_cancel_flag(cancel_flags, j)
  /\ WorkerFrame
  /\ UNCHANGED <<links, lib, arch>>

(* back in download_and_process_url: link the submitting user *)
dl_link(j) ==
  /\ At(j, "link")
  /\ IF wk[j].to_library /\ wk[j].user # None
     THEN SetLibrary(link_to_user_library(Library, wk[j].user, wk[j].yid, j))
     ELSE UNCHANGED <<links, lib, arch>>
  /\ Exit(j)
  /\ WorkerFrame
  /\ UNCHANGED <<jobs_storage, cancel_flags>>

(* except of download_and_process_url: status failed; the thread ends,    *)
(* with a KeyError when the record is gone.  The flag stays registered.   *)
dl_except(j) ==
  /\ At(j, "dl_except")
  /\ IF HasJob(j)
     THEN jobs_storage' = [jobs_storage EXCEPT
                ![j].status = "failed", ![j].error = wk[j].result]
     ELSE UNCHANGED jobs_storage
  /\ Exit(j)
  /\ WorkerFrame
  /\ UNCHANGED <<cancel_flags, links, lib, arch>>

(* ------------------------------------------------------------------ *)
(* process_audio_async (uploaded files; stems go to the owner's area;  *)
(* no cancellation flag is registered and none is checked)             *)
(* ------------------------------------------------------------------ *)

(* status analyzing, progress 5; a missing record raises KeyError, which *)
(* the function's except clause catches.                                  *)
u_analyzing(j) ==
  /\ At(j, "u_analyzing")
  /\ IF HasJob(j)
     THEN /\ jobs_storage' = [jobs_storage EXCEPT
                ![j].status = "analyzing", ![j].progress = 5]
          /\ Goto(j, "u_analyze")
     ELSE /\ UNCHANGED jobs_storage
          /\ Throw(j, "KeyError")
  /\ WorkerFrame
  /\ UNCHANGED <<cancel_flags, links, lib, arch>>

(* The Analysis Engine: on success music_info and progress 15 are stored; *)
(* an exception in that block (the analysis raising, or the record        *)
(* missing) is logged and ignored.                                        *)
u_analyze(j) ==
  /\ At(j, "u_analyze")
  /\ \E ok \in BOOLEAN :
       IF ok /\ HasJob(j)
       THEN /\ jobs_storage' = [jobs_storage EXCEPT ![j].progress = 15]
            /\ Goto(j, "u_processing")
       ELSE /\ UNCHANGED jobs_storage
            /\ Swallow(j, "Music analysis failed", "u_processing")
  /\ WorkerFrame
  /\ UNCHANGED <<cancel_flags, links, lib, arch>>

(* status processing, progress 20 *)
u_processing(j) ==
  /\ At(j, "u_processing")
  /\ IF HasJob(j)
     THEN /\ jobs_storage' = [jobs_storage EXCEPT
                ![j].status = "processing", ![j].progress = 20]
          /\ Goto(j, "u_engine")
     ELSE /\ UNCHANGED jobs_storage
          /\ Throw(j, "KeyError")
  /\ WorkerFrame
  /\ UNCHANGED <<cancel_flags, links, lib, arch>>

(* create_orchestrator(auto_route=True), progress 30; then the call of   *)
(* orchestrator.process begins.                                           *)
u_engine(j) ==
  /\ At(j, "u_engine")
  /\ IF create_orchestrator(FALSE) /\ HasJob(j)
     THEN /\ jobs_storage' = [jobs_storage EXCEPT ![j].progress = 30]
          /\ Goto(j, "u_process")
     ELSE /\ UNCHANGED jobs_storage
          /\ Throw(j, "KeyError")
  /\ WorkerFrame
  /\ UNCHANGED <<cancel_flags, links, lib, arch>>

(* The Processing Engine call runs: orchestrator.process gives a result  *)
(* whose status is completed or failed, it does not raise.  A completed   *)
(* run has saved every stem into the job's directory, a failed one those  *)
(* it got to.                                                             *)
u_process(j) ==
  /\ At(j, "u_process")
  /\ \E r \in {"completed", "failed"}, saved \in SUBSET StemNames :
       /\ r = "completed" => saved = StemNames
       /\ WriteOutput(j, wk[j].user, saved)
       /\ wk' = [wk EXCEPT ![j].pc = "u_returned", ![j].result = r]
  /\ UNCHANGED <<nextJob, cancelH, cache, engineRuns, calls, library_lock, linkers, ent, batch_queues, batch, jobs, background_tasks, api_call, unlocked_writes, hits, jobs_lock, batch_queue_lock, cancel_flags_lock, threads>>
  /\ UNCHANGED <<jobs_storage, cancel_flags, links, lib, arch>>

(* the call has returned: progress 90 *)
u_returned(j) ==
  /\ At(j, "u_returned")
  /\ IF HasJob(j)
     THEN /\ jobs_storage' = [jobs_storage EXCEPT ![j].progress = 90]
          /\ Goto(j, "u_result")
     ELSE /\ UNCHANGED jobs_storage
          /\ Throw(j, "KeyError")
  /\ WorkerFrame
  /\ UNCHANGED <<cancel_flags, links, lib, arch>>

(* result.status completed: the record becomes completed with its stems; *)
(* otherwise the error is raised into the except clause.                  *)
u_result(j) ==
  /\ At(j, "u_result")
  /\ IF wk[j].result = "completed" /\ HasJob(j)
     THEN /\ jobs_storage' = [jobs_storage EXCEPT
                ![j].status = "completed", ![j].progress = 100,
                ![j].stems = StemNames]
          /\ Exit(j)
     ELSE /\ UNCHANGED jobs_storage
          /\ Throw(j, IF wk[j].result = "completed" THEN "KeyError"
                      ELSE "SeparationError")
  /\ WorkerFrame
  /\ UNCHANGED <<cancel_flags, links, lib, arch>>

(* except: status failed with the error; KeyError ends the thread *)
u_except(j) ==
  /\ At(j, "u_except")
  /\ IF HasJob(j)
     THEN jobs_storage' = [jobs_storage EXCEPT
                ![j].status = "failed", ![j].error = wk[j].result]
     ELSE UNCHANGED jobs_storage
  /\ Exit(j)
  /\ WorkerFrame
  /\ UNCHANGED <<cancel_flags, links, lib, arch>>

(* ------------------------------------------------------------------ *)
(* Request handlers on the registry                                    *)
(* ------------------------------------------------------------------ *)
HandlerFrame == UNCHANGED <<nextJob, wk, cache, engineRuns, calls, library_lock, linkers, outputs, ent, batch_queues, batch, jobs, background_tasks, api_call, unlocked_writes, hits, jobs_lock, batch_queue_lock, cancel_flags_lock, threads>>

(* what GET /status/<job_id> answers; the handler changes nothing *)
get_status(caller, j) ==
  IF ~HasJob(j) THEN 404
  ELSE IF ~IsAdmin(caller) /\ jobs_storage[j].user # caller THEN 403
  ELSE 200

(* A variant of cancel_check that lets the owner of a job through.       *)
cancel_check_owner(caller, j) ==
  IF ~HasJob(j) THEN 404
  ELSE IF ~IsAdmin(caller) /\ jobs_storage[j].user # caller THEN 403
  ELSE IF jobs_storage[j].status \in Terminal THEN 400
  ELSE 0

(* what the first lock section of POST /admin/cancel/<job_id> answers;   *)
(* 0 when the handler goes on to request the cancellation.               *)
cancel_check(caller, j) ==
  IF ~IsAdmin(caller) THEN 403
  ELSE IF ~HasJob(j) THEN 404
  ELSE IF jobs_storage[j].status \in Terminal THEN 400
  ELSE 0

(* the check passed: the handler leaves the lock section *)
cancel_job(caller, j) ==
  /\ j \notin DOMAIN cancelH
  /\ cancel_check(caller, j) = 0
  /\ cancelH' = [k \in DOMAIN cancelH \cup {j} |->
                   IF k = j THEN "request" ELSE cancelH[k]]
  /\ HandlerFrame
  /\ UNCHANGED <<jobs_storage, cancel_flags, links, lib, arch>>

(* request_job_cancel(job_id), outside jobs_lock *)
cancel_request(j) ==
  /\ j \in DOMAIN cancelH
  /\ cancelH[j] = "request"
  /\ cancel_flags' = request_job_cancel(cancel_flags, j)
  /\ cancelH' = [cancelH EXCEPT ![j] =
                   IF RequestHit(cancel_flags, j) THEN "cancelling" ELSE "cancelled"]
  /\ HandlerFrame
  /\ UNCHANGED <<jobs_storage, links, lib, arch>>

(* jobs_storage[job_id]['status'] = 'cancelling' or 'cancelled'; a record *)
(* deleted in the meantime makes the handler fail with a KeyError.        *)
cancel_write(j) ==
  /\ j \in DOMAIN cancelH
  /\ cancelH[j] \in {"cancelling", "cancelled"}
  /\ IF HasJob(j)
     THEN jobs_storage' = [jobs_storage EXCEPT ![j].status = cancelH[j]]
     ELSE UNCHANGED jobs_storage
  /\ cancelH' = [k \in DOMAIN cancelH \ {j} |-> cancelH[k]]
  /\ HandlerFrame
  /\ UNCHANGED <<cancel_flags, links, lib, arch>>

(* what DELETE /delete/<job_id> answers *)
delete_job_code(caller, j) ==
  IF ~HasJob(j) THEN 404
  ELSE IF ~IsAdmin(caller) /\ jobs_storage[j].user # caller THEN 403
  ELSE 200

(* The library part of delete_job: unlink keyed by the youtube id, then   *)
(* archive when the usage count reads 0.                                  *)
delete_library_link(L, job_owner, y) ==
  LET unlinked == unlink_from_user_library(L, job_owner, y)
  IN IF get_library_usage(unlinked, y) = 0
     THEN archive_library_item(unlinked, y).L
     ELSE unlinked

(* a permitted delete; a refused one changes nothing *)
delete_job(caller, j) ==
  /\ delete_job_code(caller, j) = 200
  /\ LET job == jobs_storage[j]
     IN /\ DelJob(j)
        /\ IF job.youtube_video_id # None
           THEN LET L == delete_library_link(Library, job.user, job.youtube_video_id)
                IN /\ DepthOk(L)
                   /\ SetLibrary(L)
                   /\ UNCHANGED outputs
           ELSE /\ RemoveOutput(j, job.user)
                /\ UNCHANGED <<links, lib, arch>>
  /\ UNCHANGED <<nextJob, wk, cache, engineRuns, calls, library_lock, linkers, ent, batch_queues, batch, jobs, background_tasks, api_call, unlocked_writes, hits, jobs_lock, batch_queue_lock, cancel_flags_lock, threads>>
  /\ UNCHANGED <<cancel_flags, cancelH>>

(* ------------------------------------------------------------------ *)
(* Recovery: scan_existing_outputs and GET /jobs                       *)
(* ------------------------------------------------------------------ *)

(* the job directories the scan walks that hold an audio file: those in  *)
(* the user's area, or in every area when no username is given           *)
ScanDirs(O, username) ==
  {j \in JobIds : O[j].files # {} /\ (username = None \/ O[j].user = username)}

(* A variant of ScanRecord that leaves the stems of the new record empty. *)
ScanRecordBare(O, j) ==
  [NewRecord("completed", O[j].user) EXCEPT !.progress = 100]

(* the record the scan creates for a directory without one: completed,   *)
(* progress 100, the stems found, the owner read off the path            *)
ScanRecord(O, j) ==
  [NewRecord("completed", O[j].user) EXCEPT
     !.progress = 100, !.stems = O[j].files]

(* The registry after scan_existing_outputs(username) over the output    *)
(* directories O: a directory whose record has stems is skipped, a       *)
(* record without stems gets the stems found, a directory without a      *)
(* record gets a new one.                                                *)
scan_existing_outputs(J, O, username) ==
  [j \in DOMAIN J \cup ScanDirs(O, username) |->
     IF j \notin ScanDirs(O, username) THEN J[j]
     ELSE IF j \in DOMAIN J /\ J[j].stems # {} THEN J[j]
     ELSE IF j \in DOMAIN J THEN [J[j] EXCEPT !.stems = O[j].files]
     ELSE ScanRecord(O, j)]

(* metadata.json of library/<id> can be read *)
get_library_metadata(L, id) ==
  id \in Yids /\ Exists(L.lib[id]) /\ L.lib[id][1].meta.present

(* the user's links, by key; nothing without a username or a links file *)
get_user_library_links(L, username) ==
  IF username \in DOMAIN L.links THEN L.links[username] ELSE <<>>

(* list_jobs reads each key of the links file as the youtube id and as   *)
(* the job id: a key that has no record and names a library entry with   *)
(* metadata gets a completed library-link record.                        *)
LinkRecords(J, L, username) ==
  LET user_links == get_user_library_links(L, username)
      missing == {k \in DOMAIN user_links :
                    k \notin DOMAIN J /\ get_library_metadata(L, k)}
  IN [k \in DOMAIN J \cup missing |->
        IF k \in DOMAIN J THEN J[k]
        ELSE [NewRecord("completed", username) EXCEPT
                !.progress = 100,
                !.stems = get_library_stems(L, k),
                !.youtube_video_id = k,
                !.is_library_link = TRUE]]

(* GET /jobs: re-scan the caller's outputs, then load the library links *)
(* the records a scan creates or updates; the scan takes no lock *)
ScanWrites(J, O, username) ==
  LET S == scan_existing_outputs(J, O, username)
  IN {j \in DOMAIN S : j \notin DOMAIN J \/ S[j] # J[j]}

list_jobs(username) ==
  /\ jobs_storage' =
       LinkRecords(scan_existing_outputs(jobs_storage, outputs, username),
                   Library, username)
  /\ unlocked_writes' =
       unlocked_writes \cup ScanWrites(jobs_storage, outputs, username)
  /\ UNCHANGED <<nextJob, wk, cache, engineRuns, calls, library_lock, linkers,
                 outputs, ent, batch_queues, batch, jobs, background_tasks,
                 api_call, hits, jobs_lock, batch_queue_lock, cancel_flags_lock, threads>>
  /\ UNCHANGED <<cancel_flags, links, lib, arch, cancelH>>

(* ------------------------------------------------------------------ *)
(* Archive management                                                  *)
(* ------------------------------------------------------------------ *)
LibraryFrame ==
  UNCHANGED <<jobs_storage, nextJob, cancel_flags, wk, cancelH, cache, engineRuns, calls, library_lock, linkers, outputs, ent, batch_queues, batch, jobs, background_tasks, api_call, unlocked_writes, hits, jobs_lock, batch_queue_lock, cancel_flags_lock, threads>>

(* POST /admin/archive/restore/<youtube_id>, for an admin *)
admin_restore_archived(caller, y) ==
  /\ IsAdmin(caller)
  /\ Exists(arch[y])
  /\ LET r == restore_from_archive(Library, y)
     IN /\ DepthOk(r.L)
        /\ SetLibrary(r.L)
  /\ LibraryFrame

(* get_archived_items has an item for the id *)
InArchive(L, y) == Exists(L.arch[y])

(* What DELETE /admin/archive/delete/<youtube_id> answers and leaves on   *)
(* disk: 403 for anyone but an admin; without confirm the archived item   *)
(* is described (404 when there is none); with confirm it is deleted      *)
(* (500 when there is none).                                              *)
delete_archived_request(L, caller, y, confirm) ==
  IF ~IsAdmin(caller) THEN [code |-> 403, L |-> L]
  ELSE IF ~confirm
  THEN [code |-> IF InArchive(L, y) THEN 200 ELSE 404, L |-> L]
  ELSE LET r == permanently_delete_archived(L, y)
       IN [code |-> IF r.ok THEN 200 ELSE 500, L |-> r.L]

(* a call that deletes; any other call changes nothing *)
admin_delete_archived(caller, y, confirm) ==
  /\ IsAdmin(caller)
  /\ confirm
  /\ Exists(arch[y])
  /\ SetLibrary(delete_archived_request(Library, caller, y, confirm).L)
  /\ LibraryFrame

(* ------------------------------------------------------------------ *)
(* popular_cache.py: cache_song, run by the cache worker thread        *)
(* ------------------------------------------------------------------ *)
Trending == {"y1"}

(* get_popular_songs_for_caching: library items in use, and the trending list *)
IsPopular(y) == get_library_usage(Library, y) > 0 \/ y \in Trending

CacheFrame ==
  UNCHANGED <<jobs_storage, nextJob, cancel_flags, links, arch, wk, cancelH, calls, library_lock, linkers, outputs, ent, batch_queues, batch, jobs, background_tasks, api_call, unlocked_writes, hits, jobs_lock, batch_queue_lock, cancel_flags_lock, threads>>

CacheGoto(y, pc) == cache' = [cache EXCEPT ![y].pc = pc]

CacheExit(y) == cache' = [k \in DOMAIN cache \ {y} |-> cache[k]]

CacheAt(y, pc) == y \in DOMAIN cache /\ cache[y].pc = pc

(* not cached yet: create_library_entry *)
cache_song(y) ==
  /\ y \notin DOMAIN cache
  /\ IsPopular(y)
  /\ ~check_library_exists(Library, y)
  /\ engineRuns[y] < MaxRuns
  /\ lib' = create_library_entry(Library, y).lib
  /\ cache' = [k \in DOMAIN cache \cup {y} |->
                 IF k = y THEN [pc |-> "k_download", written |-> {}]
                 ELSE cache[k]]
  /\ UNCHANGED engineRuns
  /\ CacheFrame

(* the download raises (cache_song returns False) or leaves the audio *)
k_download(y) ==
  /\ CacheAt(y, "k_download")
  /\ \E ok \in BOOLEAN :
       IF ok
       THEN /\ lib' = [lib EXCEPT ![y] = WithOriginal(@)]
            /\ CacheGoto(y, "k_engine")
       ELSE /\ UNCHANGED lib
            /\ CacheExit(y)
  /\ UNCHANGED engineRuns
  /\ CacheFrame

HasOriginal(dir) == Exists(dir) /\ dir[1].orig

(* orchestrator.process loads the audio and separates it; without the    *)
(* audio file it returns a failed result.                                 *)
k_engine(y) ==
  /\ CacheAt(y, "k_engine")
  /\ create_orchestrator(FALSE)
  /\ IF HasOriginal(lib[y])
     THEN /\ engineRuns' = [engineRuns EXCEPT ![y] = @ + 1]
          /\ CacheGoto(y, "k_write")
     ELSE /\ UNCHANGED engineRuns
          /\ CacheGoto(y, "k_meta")
  /\ UNCHANGED lib
  /\ CacheFrame

(* mkdir(parents, exist_ok) of the stems' directory *)
MakeDir(dir) == IF Exists(dir) THEN dir ELSE <<EmptyLayer>>

(* _save_stems makes the output directory and writes the stems one file  *)
(* after the other; a failed write makes orchestrator.process return a   *)
(* failed result.                                                         *)
k_write(y) ==
  /\ CacheAt(y, "k_write")
  /\ LET todo == StemNames \ cache[y].written
         dir == IF cache[y].written = {} THEN MakeDir(lib[y]) ELSE lib[y]
     IN \/ /\ todo # {}
           /\ Exists(dir)
           /\ \E s \in todo :
                /\ lib' = [lib EXCEPT ![y] = SetTop(dir, [dir[1] EXCEPT !.stems = @ \cup {s}])]
                /\ cache' = [cache EXCEPT ![y].written = @ \cup {s}]
        \/ /\ todo # {}
           /\ CacheGoto(y, "k_meta")
           /\ UNCHANGED lib
        \/ /\ todo = {}
           /\ CacheGoto(y, "k_meta")
           /\ UNCHANGED lib
  /\ UNCHANGED engineRuns
  /\ CacheFrame

(* metadata.json is written anew, usage_count 0 included; the write     *)
(* raises when the directory is gone.                                    *)
CacheMeta(dir) ==
  IF Exists(dir)
  THEN SetTop(dir, [dir[1] EXCEPT
         !.meta = [present |-> TRUE, usage_count |-> 0, stamped |-> FALSE]])
  ELSE dir

k_meta(y) ==
  /\ CacheAt(y, "k_meta")
  /\ lib' = [lib EXCEPT ![y] = CacheMeta(@)]
  /\ CacheExit(y)
  /\ UNCHANGED engineRuns
  /\ CacheFrame

(* ------------------------------------------------------------------ *)
(* dashboard.py: the batch queue                                        *)
(* ------------------------------------------------------------------ *)

(* a URL of a site that is not among the supported patterns *)
UnsupportedUrl == [site |-> "example.com", form |-> "page", vid |-> None]

BatchUrls == Urls \cup {UnsupportedUrl}

(* the 'urls' arrays a client posts, up to MaxBatch long *)
UrlLists == UNION {[1..n -> BatchUrls] : n \in 1..MaxBatch}

supported_patterns ==
  {"youtube.com", "youtu.be", "soundcloud.com", "vimeo.com", "bandcamp.com"}

(* the posted URLs that match a supported pattern, in the posted order *)
valid_urls(urls) == SelectSeq(urls, LAMBDA url : url.site \in supported_patterns)

(* an entry of batch_queues[username] *)
BatchEntry(j, url) == [job_id |-> j, url |-> url]

NoEntry == [job_id |-> None, url |-> None]

(* a process_batch_queue(username) thread *)
BatchThread(username) == [user |-> username, pc |-> "pop", job |-> NoEntry]

BatchFrame ==
  UNCHANGED <<cancel_flags, links, lib, arch, cancelH, cache, engineRuns, calls,
              library_lock, linkers, outputs, ent, jobs, background_tasks, api_call, unlocked_writes, hits, jobs_lock, batch_queue_lock, cancel_flags_lock, threads>>

(* POST /batch-queue (401 without a session, 400 when no URL is valid):  *)
(* every valid URL gets a fresh job id and is appended to the user's     *)
(* queue, then a process_batch_queue thread is started for the user.     *)
add_to_batch_queue(username, urls) ==
  LET valid == valid_urls(urls)
      n == Len(valid)
  IN /\ username # None
     /\ n > 0
     /\ nextJob + n <= MaxJobs
     /\ batch_queues' = [batch_queues EXCEPT ![username] =
            @ \o [i \in 1..n |-> BatchEntry(JobNames[nextJob + i], valid[i])]]
     /\ batch' = Append(batch, BatchThread(username))
     /\ nextJob' = nextJob + n
     /\ UNCHANGED <<jobs_storage, wk>>
     /\ BatchFrame

(* DELETE /batch-queue/<job_id> *)
remove_from_batch_queue(username, j) ==
  /\ username # None
  /\ batch_queues' = [batch_queues EXCEPT ![username] =
         SelectSeq(@, LAMBDA e : e.job_id # j)]
  /\ UNCHANGED <<jobs_storage, wk, nextJob, batch>>
  /\ BatchFrame

(* the thread at position t ends *)
EndBatch(t) ==
  batch' = [i \in 1..(Len(batch) - 1) |-> IF i < t THEN batch[i] ELSE batch[i + 1]]

BatchAt(t, pc) == t \in DOMAIN batch /\ batch[t].pc = pc

(* with batch_queue_lock: pop the first entry, or break when the queue   *)
(* is empty                                                              *)
b_pop(t) ==
  /\ BatchAt(t, "pop")
  /\ LET u == batch[t].user
     IN IF batch_queues[u] # <<>>
        THEN /\ batch_queues' = [batch_queues EXCEPT ![u] = Tail(@)]
             /\ batch' = [batch EXCEPT ![t].pc = "create",
                                       ![t].job = Head(batch_queues[u])]
        ELSE /\ EndBatch(t)
             /\ UNCHANGED batch_queues
  /\ UNCHANGED <<jobs_storage, wk, nextJob>>
  /\ BatchFrame

(* with jobs_lock: the record is created as downloading; then            *)
(* download_and_process_url(job_id, url, ..., username, False) is        *)
(* entered in this thread                                                *)
b_create(t) ==
  /\ BatchAt(t, "create")
  /\ LET j == batch[t].job.job_id
         u == batch[t].user
         y == extract_youtube_id(batch[t].job.url)
     IN /\ PutJob(j, [NewRecord("downloading", u) EXCEPT !.is_batch = TRUE])
        /\ Start(j, Worker("url", "register", y, y # None, u))
  /\ batch' = [batch EXCEPT ![t].pc = "call"]
  /\ UNCHANGED <<nextJob, batch_queues>>
  /\ BatchFrame

(* download_and_process_url has returned: the loop goes round.  (When it *)
(* raises, the record is gone and the except clause writes nothing.)     *)
b_return(t) ==
  /\ BatchAt(t, "call")
  /\ ~Running(batch[t].job.job_id)
  /\ batch' = [batch EXCEPT ![t].pc = "pop", ![t].job = NoEntry]
  /\ UNCHANGED <<jobs_storage, wk, nextJob, batch_queues>>
  /\ BatchFrame

process_batch_queue(t) ==
  \/ b_pop(t)
  \/ b_create(t)
  \/ b_return(t)

(* ------------------------------------------------------------------ *)
(* api/main.py: the REST API                                            *)
(* ------------------------------------------------------------------ *)

(* settings = Settings(): the fields config/settings.py declares, with   *)
(* their defaults.  Reading any other attribute raises AttributeError.   *)
Settings ==
  [env |-> "development", debug |-> FALSE, secret_key |-> "dev-secret-key",
   base_dir |-> ".", config_file |-> "config/config.yaml",
   host |-> "0.0.0.0", port |-> 8000,
   max_file_size_mb |-> 500, max_duration |-> 600, sample_rate |-> 44100,
   temp_dir |-> "data/temp", output_dir |-> "data/outputs",
   detection_thresholds |-> "thresholds",
   use_gpu |-> TRUE, cuda_visible_devices |-> None, torch_device |-> "auto",
   redis_host |-> "localhost", redis_port |-> 6379, redis_password |-> None,
   storage_type |-> "local", aws_access_key_id |-> None,
   aws_secret_access_key |-> None, aws_region |-> "us-east-1",
   s3_bucket_name |-> None, sentry_dsn |-> None,
   sentry_environment |-> "development",
   demucs_cache_dir |-> "models/weights",
   instrument_detector_model |-> "models/instrument_classifier.h5"]

HasAttr(name) == name \in DOMAIN Settings

SUPPORTED_FORMATS == {".mp3", ".wav", ".flac", ".m4a", ".ogg", ".aac"}

QualityMode == {"fast", "balanced", "studio"}

SeparationMode == {"grouped", "per_instrument", "karaoke"}

(* the suffix of the uploaded file's name *)
Extensions == {".wav", ".mp3", ".WAV", ".txt"}

(* what soundfile finds in it: two channels; two channels and longer    *)
(* than ten minutes; six channels; not audio at all                      *)
Contents == {"stereo", "long", "surround", "garbage"}

ApiFiles == [ext : Extensions, content : Contents]

(* the 'quality' and 'mode' query parameters *)
QualityParams == QualityMode \cup {"ultra"}

ModeParams == {"grouped", "per_instrument", "stems"}

(* file_path.suffix.lower() *)
lower(ext) == IF ext = ".WAV" THEN ".wav" ELSE ext

(* AudioPreprocessor(): max_duration defaults to None *)
preprocessor_max_duration == None

Tuple(items) == [type |-> "tuple", items |-> items]

(* AudioPreprocessor.validate_audio: returns the tuple                   *)
(* (is_valid, error_message)                                             *)
validate_audio(file) ==
  IF lower(file.ext) \notin SUPPORTED_FORMATS
  THEN Tuple(<<FALSE, "Unsupported format">>)
  ELSE IF file.content = "garbage"
  THEN Tuple(<<FALSE, "Invalid audio file">>)
  ELSE IF preprocessor_max_duration # None /\ file.content = "long"
  THEN Tuple(<<FALSE, "Duration exceeds max">>)
  ELSE IF file.content = "surround"
  THEN Tuple(<<FALSE, "Too many channels">>)
  ELSE Tuple(<<TRUE, None>>)

(* value["key"]: TypeError unless the value is a dict *)
StrSubscriptable(value) == value.type = "dict"

(* what a request leaves behind: the status code, the body, the          *)
(* registry, the scheduled tasks, and whether a uuid was drawn           *)
ApiResult(code, body, J, T, uuid) ==
  [code |-> code, body |-> body, jobs |-> J, tasks |-> T, uuid |-> uuid]

(* jobs[job_id] = {...} *)
ApiRecord == [status |-> "queued", progress |-> 0]

(* POST /api/split, lines 251-318: everything inside the try, where any  *)
(* exception (an HTTPException too) is turned into a 500                 *)
split_audio_try(J, T, id, file, quality, mode) ==
  IF ~HasAttr("upload_dir")
  THEN ApiResult(500, "AttributeError", J, T, TRUE)
  ELSE LET validation == validate_audio(file)
       IN IF ~StrSubscriptable(validation)
          THEN ApiResult(500, "TypeError", J, T, TRUE)
          ELSE IF ~validation.items["valid"]
          THEN ApiResult(500, "Invalid audio", J, T, TRUE)
          ELSE IF quality \notin QualityMode \/ mode \notin SeparationMode
          THEN ApiResult(500, "ValueError", J, T, TRUE)
          ELSE ApiResult(200, [job_id |-> id, status |-> "queued", progress |-> 0],
                         [k \in DOMAIN J \cup {id} |-> IF k = id THEN ApiRecord ELSE J[k]],
                         T \cup {id}, TRUE)

(* POST /api/split.  The format check reads settings.allowed_formats     *)
(* before the try: an exception there is an unhandled one, a 500.        *)
split_audio(J, T, id, file, quality, mode) ==
  IF ~HasAttr("allowed_formats")
  THEN ApiResult(500, "Internal Server Error", J, T, FALSE)
  ELSE IF file.ext \notin Settings["allowed_formats"]
  THEN ApiResult(400, "Unsupported format", J, T, FALSE)
  ELSE split_audio_try(J, T, id, file, quality, mode)

(* GET /api/status/{job_id} *)
get_job_status(J, id) ==
  IF id \notin DOMAIN J
  THEN ApiResult(404, "Job not found", J, background_tasks, FALSE)
  ELSE ApiResult(200, [job_id |-> id, status |-> J[id].status,
                       progress |-> J[id].progress], J, background_tasks, FALSE)

(* DELETE /api/jobs/{job_id} *)
api_delete_job(J, id) ==
  IF id \notin DOMAIN J
  THEN ApiResult(404, "Job not found", J, background_tasks, FALSE)
  ELSE ApiResult(200, "deleted", [k \in DOMAIN J \ {id} |-> J[k]],
                 background_tasks, FALSE)

ApiFrame ==
  UNCHANGED <<jobs_storage, cancel_flags, links, lib, arch, wk, cancelH, cache,
              engineRuns, calls, library_lock, linkers, outputs, ent,
              batch_queues, batch, unlocked_writes, hits, jobs_lock, batch_queue_lock, cancel_flags_lock, threads>>

(* the request is handled and answered *)
Respond(op, arg, r) ==
  /\ jobs' = r.jobs
  /\ background_tasks' = r.tasks
  /\ api_call' = [op |-> op, arg |-> arg, code |-> r.code, body |-> r.body]
  /\ nextJob' = IF r.uuid THEN nextJob + 1 ELSE nextJob
  /\ ApiFrame

ApiSplit ==
  \E file \in ApiFiles, quality \in QualityParams, mode \in ModeParams :
    /\ nextJob < MaxJobs
    /\ Respond("split", [file |-> file, quality |-> quality, mode |-> mode],
               split_audio(jobs, background_tasks, NewJobId, file, quality, mode))

ApiStatus ==
  \E id \in JobIds :
    LET r == get_job_status(jobs, id)
    IN /\ r.code \in {200, 404}
       /\ Respond("status", id, r)

ApiDelete ==
  \E id \in JobIds :
    LET r == api_delete_job(jobs, id)
    IN /\ r.code \in {200, 404}
       /\ Respond("delete", id, r)

(* ------------------------------------------------------------------ *)
(* The system                                                          *)
(* ------------------------------------------------------------------ *)
Init ==
  /\ jobs_storage = <<>>
  /\ nextJob = 0
  /\ cancel_flags = <<>>
  /\ links = [u \in Users |-> <<>>]
  /\ lib = [y \in Yids |-> NoDir]
  /\ arch = [y \in Yids |-> NoDir]
  /\ wk = <<>>
  /\ cancelH = <<>>
  /\ cache = <<>>
  /\ engineRuns = [y \in Yids |-> 0]
  /\ calls = NoCalls
  /\ library_lock = None
  /\ linkers = <<>>
  /\ outputs = [j \in JobIds |-> NoOutput]
  /\ ent = NoRequest
  /\ batch_queues = [u \in Users |-> <<>>]
  /\ batch = <<>>
  /\ jobs = <<>>
  /\ background_tasks = {}
  /\ api_call = NoCall
  /\ unlocked_writes = {}
  /\ hits = <<>>
  /\ jobs_lock = None
  /\ batch_queue_lock = None
  /\ cancel_flags_lock = None
  /\ threads = <<>>

UrlWorkerStep(j) ==
  \/ dl_register(j)
  \/ dl_check1(j)
  \/ dl_fetch(j)
  \/ dl_download(j)
  \/ dl_set_analyzing(j)
  \/ dl_read_meta(j)
  \/ dl_save_meta(j)
  \/ pd_analyze(j)
  \/ pd_set_processing(j)
  \/ pd_except(j)
  \/ dl_link(j)
  \/ dl_except(j)

UploadWorkerStep(j) ==
  \/ u_analyzing(j)
  \/ u_analyze(j)
  \/ u_processing(j)
  \/ u_engine(j)
  \/ u_process(j)
  \/ u_returned(j)
  \/ u_result(j)
  \/ u_except(j)

CacheStep(y) ==
  \/ cache_song(y)
  \/ k_download(y)
  \/ k_engine(y)
  \/ k_write(y)
  \/ k_meta(y)

(* a dedup-eligible submission: a YouTube id and not a preview *)
Eligible(url, preview) == extract_youtube_id(url) # None /\ ~preview

Submit ==
  \E u \in Users, url \in Urls, preview \in BOOLEAN : upload_from_url(u, url, preview)

SubmitEligible ==
  \E u \in Users, url \in Urls, preview \in BOOLEAN :
    Eligible(url, preview) /\ upload_from_url(u, url, preview)

SubmitOther ==
  \E u \in Users, url \in Urls, preview \in BOOLEAN :
    ~Eligible(url, preview) /\ upload_from_url(u, url, preview)

(* a submission without a session: session.get('user_id') is None *)
SubmitGuest ==
  \E url \in Urls, preview \in BOOLEAN : upload_from_url(None, url, preview)

Upload == \E u \in Users : upload_file(u)

UrlWorker == \E j \in JobIds : UrlWorkerStep(j)

UploadWorker == \E j \in JobIds : UploadWorkerStep(j)

Cancel ==
  \/ \E c \in Callers, j \in JobIds : cancel_job(c, j)
  \/ \E j \in JobIds : cancel_request(j)
  \/ \E j \in JobIds : cancel_write(j)

Delete == \E c \in Callers, j \in JobIds : delete_job(c, j)

(* session.get('user_id'): a logged-in caller, or None *)
Sessions == Callers \cup {None}

ListJobs == \E c \in Sessions : list_jobs(c)

AddBatch == \E u \in Users, urls \in UrlLists : add_to_batch_queue(u, urls)

RemoveBatch == \E u \in Users, j \in JobIds : remove_from_batch_queue(u, j)

BatchWorker == \E t \in 1..MaxJobs : process_batch_queue(t)

Restore == \E c \in Callers, y \in Yids : admin_restore_archived(c, y)

Purge ==
  \E c \in Callers, y \in Yids, confirm \in BOOLEAN : admin_delete_archived(c, y, confirm)

CacheWorker == \E y \in Yids : CacheStep(y)

(* the library short-circuit of a submission, step by step *)
ShortCircuit ==
  \/ \E u \in Users, url \in Urls : sc_lookup(u, url)
  \/ \E j \in JobIds : sc_link(j)
  \/ \E j \in JobIds : sc_record(j)

(* the whole dashboard *)
Next ==
  \/ Upload
  \/ Submit
  \/ UrlWorker
  \/ UploadWorker
  \/ Cancel
  \/ Delete
  \/ Restore
  \/ Purge
  \/ CacheWorker
  \/ ListJobs
  \/ AddBatch
  \/ RemoveBatch
  \/ BatchWorker
  \/ ApiSplit
  \/ ApiStatus
  \/ ApiDelete
  \/ ShortCircuit

Spec == Init /\ [][Next]_vars

(* The shared library: dedup-eligible submissions and their workers, the *)
(* cache worker, job deletion and the admin's archive management.        *)
NextLibrary ==
  \/ SubmitEligible
  \/ UrlWorker
  \/ CacheWorker
  \/ Delete
  \/ Restore
  \/ Purge

SpecLibrary == Init /\ [][NextLibrary]_vars

(* The job registry: URL submissions that stay out of the shared         *)
(* library, their workers, admin cancellation and job deletion.          *)
NextJobs ==
  \/ SubmitOther
  \/ UrlWorker
  \/ Cancel
  \/ Delete

SpecJobs == Init /\ [][NextJobs]_vars

(* The REST API: submissions, status queries and deletions.             *)
NextApi ==
  \/ ApiSplit
  \/ ApiStatus
  \/ ApiDelete

SpecApi == Init /\ [][NextApi]_vars

(* The lookup-to-link gap: short-circuit submissions taken step by     *)
(* step, the cache worker that fills the library, and job deletion.     *)
NextLookupLink ==
  \/ ShortCircuit
  \/ CacheWorker
  \/ Delete

SpecLookupLink == Init /\ [][NextLookupLink]_vars

(* Termination: URL submissions, their workers and admin               *)
(* cancellation.  A started worker thread keeps being scheduled (every  *)
(* engine and acquisition call returns), and so does a cancel handler   *)
(* that has passed its check.  Nothing obliges a client to submit or to *)
(* cancel.                                                              *)
NextTermination ==
  \/ SubmitOther
  \/ UrlWorker
  \/ Cancel

FairThreads ==
  \A j \in JobIds :
    /\ WF_vars(UrlWorkerStep(j))
    /\ WF_vars(cancel_request(j))
    /\ WF_vars(cancel_write(j))

SpecTermination == Init /\ [][NextTermination]_vars /\ FairThreads

(* The usage count under concurrent workers: dedup-eligible            *)
(* submissions of one video and their workers, with neither the cache   *)
(* nor deletions.                                                       *)
NextUsageRace ==
  \/ SubmitEligible
  \/ UrlWorker

SpecUsageRace == Init /\ [][NextUsageRace]_vars

(* The batch queue: batches posted by logged-in users, removals from    *)
(* the queue, the queue processors and the URL workers they run.        *)
NextBatch ==
  \/ AddBatch
  \/ RemoveBatch
  \/ BatchWorker
  \/ UrlWorker

SpecBatch == Init /\ [][NextBatch]_vars

(* Batch delivery: one user's batch queue with admin cancellation of   *)
(* the jobs it runs.  Every started thread keeps being scheduled: the   *)
(* queue processors, the download_and_process_url calls they make and   *)
(* the cancel handlers that have passed their check.                    *)
NextBatchRun ==
  \/ \E urls \in UrlLists : add_to_batch_queue("alice", urls)
  \/ RemoveBatch
  \/ BatchWorker
  \/ UrlWorker
  \/ Cancel

FairBatch ==
  /\ \A t \in 1..MaxJobs : WF_vars(process_batch_queue(t))
  /\ FairThreads

SpecBatchRun == Init /\ [][NextBatchRun]_vars /\ FairBatch

(* the same without cancellation *)
SpecBatchQuiet == Init /\ [][NextBatch]_vars /\ FairBatch

(* Cancellation requests that arrive while the Processing Engine call   *)
(* of the job is running: uploads, their workers, and the cancel        *)
(* handler, whose steps are taken only during the call.                 *)
InEngine(j) == At(j, "u_process") \/ At(j, "u_returned")

CancelInEngine ==
  \/ \E c \in Callers, j \in JobIds : InEngine(j) /\ cancel_job(c, j)
  \/ \E j \in JobIds : InEngine(j) /\ cancel_request(j)
  \/ \E j \in JobIds : InEngine(j) /\ cancel_write(j)

NextEngineCancel ==
  \/ Upload
  \/ UploadWorker
  \/ CancelInEngine

SpecEngineCancel == Init /\ [][NextEngineCancel]_vars

(* Recovery while jobs run: uploads and URLs outside the library, their  *)
(* workers, deletes, and GET /jobs from any session.                     *)
NextRecovery ==
  \/ Upload
  \/ SubmitOther
  \/ UploadWorker
  \/ UrlWorker
  \/ Delete
  \/ ListJobs

SpecRecovery == Init /\ [][NextRecovery]_vars

(* Submissions without a session: the cache worker fills the library,   *)
(* anonymous clients post URLs, and their workers run.                  *)
NextGuests ==
  \/ SubmitGuest
  \/ UrlWorker
  \/ CacheWorker

SpecGuests == Init /\ [][NextGuests]_vars

(* ------------------------------------------------------------------ *)
(* Stem entitlement: from the request's instruments and the caller's   *)
(* plan to the stems dispatched to the Processing Engine and offered   *)
(* by the job (upload_file, upload_from_url, _create_routing_plan,     *)
(* HarmonixSeparator.separate)                                          *)
(* ------------------------------------------------------------------ *)
Plans == {"free", "creator", "studio"}

Modes == {"grouped", "karaoke", "per_instrument"}

(* names a request can carry in its instruments field *)
RequestNames == {"vocals", "guitar", "strings"}

(* instruments the detector can report *)
DetectNames == {"vocals", "guitar"}

(* PLANS[plan]["stem_types"] *)
stem_types(plan) ==
  IF plan = "free" THEN {"vocals", "drums", "bass", "other"}
  ELSE {"vocals", "drums", "bass", "guitar", "piano", "other"}

(* The instruments stored in the record: None ({} here) when the request *)
(* names none, otherwise the requested ones the plan allows.             *)
parse_instruments(plan, requested) ==
  IF requested = {} THEN {} ELSE requested \cap stem_types(plan)

(* the record's fields that concern the stems: there is none for the     *)
(* names that were filtered out                                          *)
EntRecord(plan, requested, mode) ==
  [instruments |-> parse_instruments(plan, requested), mode |-> mode,
   user_plan |-> plan]

(* the stems a record says were dropped *)
dropped_in_record(rec) ==
  IF "dropped" \in DOMAIN rec THEN rec.dropped ELSE {}

(* _create_routing_plan: target_instruments as passed (the worker passes *)
(* None for an empty list), or the default of the mode                   *)
create_routing_plan(mode, instruments, detected) ==
  IF instruments # {} THEN instruments
  ELSE IF mode = "per_instrument" THEN detected
  ELSE IF mode = "karaoke" THEN {"vocals", "instrumental"}
  ELSE {"vocals", "drums", "bass", "other"}

(* HarmonixSeparator.separate: the stems saved, by mode *)
separate(mode, target_instruments) ==
  IF mode = "karaoke" THEN {"vocals", "instrumental"}
  ELSE IF mode = "per_instrument"
  THEN {"vocals", "drums", "bass"}
         \cup (IF target_instruments = {} THEN {"guitar", "piano", "strings", "synth"}
               ELSE target_instruments)
  ELSE {"vocals", "drums", "bass", "other"}

EntFrame ==
  UNCHANGED <<jobs_storage, nextJob, cancel_flags, links, lib, arch, wk, cancelH,
              cache, engineRuns, calls, library_lock, linkers, outputs, batch_queues, batch, jobs, background_tasks, api_call, unlocked_writes, hits, jobs_lock, batch_queue_lock, cancel_flags_lock, threads>>

(* POST /upload or a library miss of POST /upload-url: the record is made *)
e_submit(plan, requested, mode) ==
  /\ ent.pc = "idle"
  /\ ent' = [pc |-> "queued", plan |-> plan, requested |-> requested,
             rec |-> EntRecord(plan, requested, mode)]
  /\ EntFrame

(* a library hit of POST /upload-url: the record offers every stem of the *)
(* entry, which holds a vocals or an instrumental file                    *)
e_link(plan, library_stems) ==
  /\ ent.pc = "idle"
  /\ library_stems \cap required_files # {}
  /\ ent' = [pc |-> "done", plan |-> plan, requested |-> {},
             rec |-> EntRecord(plan, {}, "grouped"),
             target |-> {}, stems |-> library_stems]
  /\ EntFrame

(* the worker calls orchestrator.process: the routing plan is made and    *)
(* the separation dispatched                                              *)
e_route(detected) ==
  /\ ent.pc = "queued"
  /\ ent' = [pc |-> "dispatched", plan |-> ent.plan, requested |-> ent.requested,
             rec |-> ent.rec,
             target |-> create_routing_plan(ent.rec.mode, ent.rec.instruments, detected)]
  /\ EntFrame

(* the separation ends and the job offers the stems that were saved *)
e_separate ==
  /\ ent.pc = "dispatched"
  /\ ent' = [pc |-> "done", plan |-> ent.plan, requested |-> ent.requested,
             rec |-> ent.rec, target |-> ent.target,
             stems |-> separate(ent.rec.mode, ent.target)]
  /\ EntFrame

(* the next request *)
e_next ==
  /\ ent.pc = "done"
  /\ ent' = NoRequest
  /\ EntFrame

SubmitPlan ==
  \E plan \in Plans, requested \in SUBSET RequestNames, mode \in Modes :
    e_submit(plan, requested, mode)

LinkPlan ==
  \E plan \in Plans, library_stems \in SUBSET {"vocals", "instrumental", "guitar"} :
    e_link(plan, library_stems)

Route == \E detected \in SUBSET DetectNames : e_route(detected)

NextEntitlement ==
  \/ SubmitPlan
  \/ LinkPlan
  \/ Route
  \/ e_separate
  \/ e_next

SpecEntitlement == Init /\ [][NextEntitlement]_vars

(* ------------------------------------------------------------------ *)
(* library.py called directly: any sequence of link_to_user_library    *)
(* and unlink_from_user_library calls on one active entry              *)
(* ------------------------------------------------------------------ *)
RefId == "y1"

(* the entry has just been made by create_library_entry *)
InitRefCount ==
  /\ jobs_storage = <<>>
  /\ nextJob = 0
  /\ cancel_flags = <<>>
  /\ links = [u \in Users |-> <<>>]
  /\ lib = create_library_entry(
             [links |-> [u \in Users |-> <<>>],
              lib |-> [y \in Yids |-> NoDir],
              arch |-> [y \in Yids |-> NoDir]], RefId).lib
  /\ arch = [y \in Yids |-> NoDir]
  /\ wk = <<>>
  /\ cancelH = <<>>
  /\ cache = <<>>
  /\ engineRuns = [y \in Yids |-> 0]
  /\ calls = NoCalls
  /\ library_lock = None
  /\ linkers = <<>>
  /\ outputs = [j \in JobIds |-> NoOutput]
  /\ ent = NoRequest
  /\ batch_queues = [u \in Users |-> <<>>]
  /\ batch = <<>>
  /\ jobs = <<>>
  /\ background_tasks = {}
  /\ api_call = NoCall
  /\ unlocked_writes = {}
  /\ hits = <<>>
  /\ jobs_lock = None
  /\ batch_queue_lock = None
  /\ cancel_flags_lock = None
  /\ threads = <<>>

CallFrame ==
  UNCHANGED <<jobs_storage, nextJob, cancel_flags, wk, cancelH, cache, engineRuns,
              library_lock, linkers, outputs, ent, batch_queues, batch, jobs, background_tasks, api_call, unlocked_writes, hits, jobs_lock, batch_queue_lock, cancel_flags_lock, threads>>

LinkCall(username, job_id) ==
  /\ calls.link < MaxCalls
  /\ SetLibrary(link_to_user_library(Library, username, RefId, job_id))
  /\ calls' = [calls EXCEPT !.link = @ + 1]
  /\ CallFrame

(* removed counts the calls that found links[job_id] *)
UnlinkCall(username, job_id) ==
  /\ calls.unlink < MaxCalls
  /\ SetLibrary(unlink_from_user_library(Library, username, job_id))
  /\ calls' = [calls EXCEPT
                 !.unlink = @ + 1,
                 !.removed = @ + (IF job_id \in DOMAIN links[username] THEN 1 ELSE 0)]
  /\ CallFrame

NextRefCount ==
  \/ \E u \in Users, j \in JobIds : LinkCall(u, j)
  \/ \E u \in Users, j \in JobIds : UnlinkCall(u, j)

SpecRefCount == InitRefCount /\ [][NextRefCount]_vars

(* ------------------------------------------------------------------ *)
(* library.py: concurrent link_to_user_library calls on one entry, one  *)
(* thread per owner, step by step                                       *)
(* ------------------------------------------------------------------ *)
LinkFrame ==
  UNCHANGED <<jobs_storage, nextJob, cancel_flags, arch, wk, cancelH, cache, engineRuns,
              outputs, ent, batch_queues, batch, jobs, background_tasks, api_call, unlocked_writes, hits, jobs_lock, batch_queue_lock, cancel_flags_lock, threads>>

Linking(t, pc) == t \in DOMAIN linkers /\ linkers[t].pc = pc

(* a lock that is always free *)
NeverHeld(lock) == TRUE

(* with library_lock: the lock can be taken when nobody holds it *)
CanAcquire(lock) == lock = None

(* metadata["usage_count"] = n, written to metadata.json of the directory *)
WriteUsage(dir, n) ==
  IF ~Exists(dir) THEN dir
  ELSE SetTop(dir, [dir[1] EXCEPT
         !.meta = [present |-> TRUE, usage_count |-> n,
                   stamped |-> dir[1].meta.present /\ dir[1].meta.stamped]])

(* a thread calls link_to_user_library(username, RefId, job_id) with a   *)
(* fresh job id                                                           *)
l_call(username, job_id) ==
  /\ username \notin DOMAIN linkers
  /\ calls.link < MaxCalls
  /\ job_id \notin DOMAIN links[username]
  /\ linkers' = [t \in DOMAIN linkers \cup {username} |->
                   IF t = username
                   THEN [pc |-> "acquire", job_id |-> job_id,
                         links_data |-> <<>>, current_count |-> 0]
                   ELSE linkers[t]]
  /\ calls' = [calls EXCEPT !.link = @ + 1]
  /\ UNCHANGED <<library_lock, links, lib>>
  /\ LinkFrame

(* with library_lock: *)
l_acquire(t) ==
  /\ Linking(t, "acquire")
  /\ CanAcquire(library_lock)
  /\ library_lock' = t
  /\ linkers' = [linkers EXCEPT ![t].pc = "load"]
  /\ UNCHANGED <<calls, links, lib>>
  /\ LinkFrame

(* links_data = load_user_links(username) *)
l_load(t) ==
  /\ Linking(t, "load")
  /\ linkers' = [linkers EXCEPT ![t].pc = "save", ![t].links_data = links[t]]
  /\ UNCHANGED <<calls, library_lock, links, lib>>
  /\ LinkFrame

(* links_data["links"][job_id] = {...}; save_user_links(username, links_data) *)
l_save(t) ==
  /\ Linking(t, "save")
  /\ LET old == linkers[t].links_data
         job_id == linkers[t].job_id
     IN links' = [links EXCEPT ![t] =
                    [k \in DOMAIN old \cup {job_id} |->
                       IF k = job_id THEN RefId ELSE old[k]]]
  /\ linkers' = [linkers EXCEPT ![t].pc = "read"]
  /\ UNCHANGED <<calls, library_lock, lib>>
  /\ LinkFrame

(* update_library_usage: current_count = metadata.get("usage_count", 0) *)
l_read(t) ==
  /\ Linking(t, "read")
  /\ linkers' = [linkers EXCEPT ![t].pc = "write",
                                ![t].current_count = UsageOf(lib[RefId])]
  /\ UNCHANGED <<calls, library_lock, links, lib>>
  /\ LinkFrame

(* update_library_usage: the new count is written to metadata.json *)
l_write(t) ==
  /\ Linking(t, "write")
  /\ lib' = [lib EXCEPT ![RefId] = WriteUsage(@, Max0(linkers[t].current_count + 1))]
  /\ linkers' = [linkers EXCEPT ![t].pc = "release"]
  /\ UNCHANGED <<calls, library_lock, links>>
  /\ LinkFrame

(* the with block ends: the lock is released and the call returns *)
l_release(t) ==
  /\ Linking(t, "release")
  /\ library_lock' = None
  /\ linkers' = [k \in DOMAIN linkers \ {t} |-> linkers[k]]
  /\ UNCHANGED <<calls, links, lib>>
  /\ LinkFrame

NextLinkRace ==
  \/ \E u \in Users, j \in JobIds : l_call(u, j)
  \/ \E t \in Users : l_acquire(t)
  \/ \E t \in Users : l_load(t)
  \/ \E t \in Users : l_save(t)
  \/ \E t \in Users : l_read(t)
  \/ \E t \in Users : l_write(t)
  \/ \E t \in Users : l_release(t)

SpecLinkRace == InitRefCount /\ [][NextLinkRace]_vars

(***************************************************************************)
(* The four locks, seen from the threads of the dashboard.  Every request  *)
(* handler, job worker and queue processor is followed through the lock    *)
(* operations it performs, in the order of its code; a with block is an    *)
(* acquire and a release around its body.  threading.Lock and              *)
(* multiprocessing.Lock are not re-entrant: an acquire by the holder       *)
(* waits like any other.                                                   *)
(***************************************************************************)
Threads == {ToString(i) : i \in 1..MaxThreads}

LockNames == {"jobs_lock", "library_lock", "cancel_flags_lock", "batch_queue_lock"}

Acquire(lock) == [op |-> "acquire", lock |-> lock]

Release(lock) == [op |-> "release", lock |-> lock]

(* with lock: body *)
With(lock, body) == <<Acquire(lock)>> \o body \o <<Release(lock)>>

RECURSIVE Flatten(_)
Flatten(sections) ==
  IF sections = <<>> THEN <<>> ELSE Head(sections) \o Flatten(Tail(sections))

(* try: sections  except Exception: handler -- an exception leaves the *)
(* body between two sections and the handler runs, or the body runs to *)
(* its end                                                             *)
Raised(sections, handler) ==
  {Flatten(SubSeq(sections, 1, k)) \o handler : k \in 0..Len(sections)}

Paths(sections, handler) == {Flatten(sections)} \cup Raised(sections, handler)

(* request_job_cancel, is_job_cancelled, register_job_cancel_flag and *)
(* cleanup_cancel_flag: each is one with cancel_flags_lock block      *)
FlagCall == With("cancel_flags_lock", <<>>)

(* link_to_user_library and unlink_from_user_library: one with         *)
(* library_lock block; load_user_links, save_user_links and            *)
(* update_library_usage inside it take no lock                         *)
LibraryCall == With("library_lock", <<>>)

(* with jobs_lock: a block that calls nothing that takes a lock *)
JobsBlock == With("jobs_lock", <<>>)

QueueBlock == With("batch_queue_lock", <<>>)

(* process_audio_async: six blocks in the try, one in the except *)
process_audio_async_locks ==
  Paths(<<JobsBlock, JobsBlock, JobsBlock, JobsBlock, JobsBlock, JobsBlock>>,
        JobsBlock)

(* process_downloaded_audio: checkpoints and status updates in the try, *)
(* one block in the except, the flag's cleanup in the finally           *)
process_downloaded_audio_locks ==
  {p \o FlagCall :
     p \in Paths(<<FlagCall, JobsBlock, FlagCall, JobsBlock, JobsBlock,
                   JobsBlock, JobsBlock>>, JobsBlock)}

(* download_and_process_url: the flag is registered, the record is       *)
(* updated three times, the audio is processed, the link is written with *)
(* no other lock held; the except block updates the record               *)
download_and_process_url_locks ==
  {FlagCall \o p : p \in Raised(<<JobsBlock, JobsBlock, JobsBlock>>, JobsBlock)}
    \cup {FlagCall \o JobsBlock \o JobsBlock \o JobsBlock \o d \o l :
            d \in process_downloaded_audio_locks,
            l \in {<<>>, LibraryCall, JobsBlock}}

(* process_batch_queue: pop under batch_queue_lock, create the record  *)
(* under jobs_lock, run the job, look at the queue again; each round   *)
(* starts with no lock held, so one round and the final look are kept  *)
process_batch_queue_locks ==
  {QueueBlock}
    \cup {QueueBlock \o JobsBlock \o d \o QueueBlock :
            d \in download_and_process_url_locks}

(* upload_from_url: the library short-circuit links and then records, *)
(* the normal path records                                            *)
upload_from_url_locks == {LibraryCall \o JobsBlock, JobsBlock}

(* cancel_job: the lookup, request_job_cancel, the status write *)
cancel_job_locks == {JobsBlock, JobsBlock \o FlagCall \o JobsBlock}

(* a delete that takes jobs_lock again inside its own block *)
delete_job_relocked == {With("jobs_lock", JobsBlock)}

(* delete_job: the whole deletion is one with jobs_lock block; for a *)
(* library link it calls unlink_from_user_library inside the block   *)
delete_job_locks == {JobsBlock, With("jobs_lock", LibraryCall)}

(* the handlers with one with jobs_lock block; scan_existing_outputs, *)
(* which some of them call inside it, takes no lock                   *)
OneBlockHandlers ==
  {"upload_file", "get_status", "download_stem", "get_job_report",
   "get_active_jobs", "rename_job", "extract_lyrics", "get_lyrics",
   "get_lyrics_lrc", "save_lyrics", "karaoke_page", "serve_video"}

TwoBlockHandlers == {"list_jobs", "analyze_job"}

QueueHandlers == {"add_to_batch_queue", "get_batch_queue", "remove_from_batch_queue"}

Handlers ==
  OneBlockHandlers \cup TwoBlockHandlers \cup QueueHandlers
    \cup {"process_audio_async", "download_and_process_url",
          "process_batch_queue", "upload_from_url", "cancel_job", "delete_job"}

LockOps(handler) ==
  CASE handler \in OneBlockHandlers -> {JobsBlock}
    [] handler \in TwoBlockHandlers -> {JobsBlock \o JobsBlock}
    [] handler \in QueueHandlers -> {QueueBlock}
    [] handler = "process_audio_async" -> process_audio_async_locks
    [] handler = "download_and_process_url" -> download_and_process_url_locks
    [] handler = "process_batch_queue" -> process_batch_queue_locks
    [] handler = "upload_from_url" -> upload_from_url_locks
    [] handler = "cancel_job" -> cancel_job_locks
    [] handler = "delete_job" -> delete_job_locks

Holder(lock) ==
  CASE lock = "jobs_lock" -> jobs_lock
    [] lock = "library_lock" -> library_lock
    [] lock = "cancel_flags_lock" -> cancel_flags_lock
    [] lock = "batch_queue_lock" -> batch_queue_lock

SetHolder(lock, t) ==
  /\ jobs_lock' = IF lock = "jobs_lock" THEN t ELSE jobs_lock
  /\ library_lock' = IF lock = "library_lock" THEN t ELSE library_lock
  /\ cancel_flags_lock' = IF lock = "cancel_flags_lock" THEN t ELSE cancel_flags_lock
  /\ batch_queue_lock' = IF lock = "batch_queue_lock" THEN t ELSE batch_queue_lock

LockFrame ==
  UNCHANGED <<jobs_storage, nextJob, cancel_flags, links, lib, arch, wk, cancelH,
              cache, engineRuns, calls, linkers, outputs, ent, batch_queues,
              batch, jobs, background_tasks, api_call, unlocked_writes, hits>>

NextOp(t) == Head(threads[t].todo)

AtOp(t, op) ==
  /\ t \in DOMAIN threads
  /\ threads[t].todo # <<>>
  /\ NextOp(t).op = op

(* a request arrives or a worker thread is started *)
t_start(t, handler, ops) ==
  /\ t \notin DOMAIN threads
  /\ threads' = [k \in DOMAIN threads \cup {t} |->
                   IF k = t THEN [handler |-> handler, todo |-> ops]
                   ELSE threads[k]]
  /\ UNCHANGED <<jobs_lock, library_lock, cancel_flags_lock, batch_queue_lock>>
  /\ LockFrame

(* lock.__enter__: the thread goes on when the lock is free *)
t_acquire(t) ==
  /\ AtOp(t, "acquire")
  /\ CanAcquire(Holder(NextOp(t).lock))
  /\ SetHolder(NextOp(t).lock, t)
  /\ threads' = [threads EXCEPT ![t].todo = Tail(@)]
  /\ LockFrame

(* lock.__exit__ *)
t_release(t) ==
  /\ AtOp(t, "release")
  /\ SetHolder(NextOp(t).lock, None)
  /\ threads' = [threads EXCEPT ![t].todo = Tail(@)]
  /\ LockFrame

(* the handler returns, the thread ends *)
t_return(t) ==
  /\ t \in DOMAIN threads
  /\ threads[t].todo = <<>>
  /\ threads' = [k \in DOMAIN threads \ {t} |-> threads[k]]
  /\ UNCHANGED <<jobs_lock, library_lock, cancel_flags_lock, batch_queue_lock>>
  /\ LockFrame

NextLocks ==
  \/ \E t \in Threads, handler \in Handlers :
       \E ops \in LockOps(handler) : t_start(t, handler, ops)
  \/ \E t \in Threads : t_acquire(t)
  \/ \E t \in Threads : t_release(t)
  \/ \E t \in Threads : t_return(t)

SpecLocks == Init /\ [][NextLocks]_vars

(* ------------------------------------------------------------------ *)
(* Properties                                                          *)
(* ------------------------------------------------------------------ *)

(* the live links that reference y: (user, key) pairs of library_links.json *)
LinksTo(y) ==
  UNION {{<<u, k>> : k \in {k2 \in DOMAIN links[u] : links[u][k2] = y}} : u \in Users}

(* C1: in every reachable state the usage_count of each library entry    *)
(* equals the number of live user links that reference its id.           *)
UsageCountsLinks ==
  \A y \in Yids :
    Exists(lib[y]) /\ lib[y][1].meta.present
      => get_library_usage(Library, y) = Cardinality(LinksTo(y))

(* C2: when two different owners have submitted the same YouTube id and  *)
(* both jobs are completed, one library entry exists for the id, the      *)
(* Processing Engine has run exactly once for it and usage_count is 2.    *)
DedupIdempotence ==
  \A a \in DOMAIN jobs_storage, b \in DOMAIN jobs_storage :
    LET y == jobs_storage[a].youtube_video_id
    IN (/\ a # b
        /\ jobs_storage[a].user # jobs_storage[b].user
        /\ y # None
        /\ jobs_storage[b].youtube_video_id = y
        /\ jobs_storage[a].status = "completed"
        /\ jobs_storage[b].status = "completed")
       => /\ Exists(lib[y])
          /\ engineRuns[y] = 1
          /\ get_library_usage(Library, y) = 2

(* C3: a lookup never hits an entry whose stem set is incomplete, while   *)
(* the stems are being written or after the writing has failed.           *)
NoPartialPublish ==
  \A y \in Yids :
    check_library_exists(Library, y) => StemNames \subseteq get_library_stems(Library, y)

(* C4: once a record's status is completed, failed or cancelled, no      *)
(* later step changes its status.                                         *)
TerminalAbsorbing ==
  [][\A j \in DOMAIN jobs_storage \cap DOMAIN jobs_storage' :
       jobs_storage[j].status \in Terminal
         => jobs_storage'[j].status = jobs_storage[j].status]_vars

Working == {"queued", "downloading", "analyzing", "processing"}

(* the state graph of a job *)
Edges ==
  {<<"queued", "downloading">>, <<"queued", "analyzing">>,
   <<"downloading", "analyzing">>, <<"analyzing", "processing">>,
   <<"processing", "completed">>, <<"cancelling", "cancelled">>}
  \cup {<<s, "failed">> : s \in Working}
  \cup {<<s, "cancelling">> : s \in Working}

(* C5: every record starts at queued and every change of its status is   *)
(* an edge of the state graph; cancelling moves only to cancelled and     *)
(* nothing follows a terminal state.                                      *)
ValidStatePaths ==
  [][\A j \in DOMAIN jobs_storage' :
       IF j \in DOMAIN jobs_storage
       THEN \/ jobs_storage'[j].status = jobs_storage[j].status
            \/ <<jobs_storage[j].status, jobs_storage'[j].status>> \in Edges
       ELSE jobs_storage'[j].status = "queued"]_vars

(* C6, as claimed: after any sequence of link and unlink calls on one id *)
(* usage_count is max(0, number of link calls - number of unlink calls).  *)
RefCountOfCalls ==
  get_library_usage(Library, RefId) = Max0(calls.link - calls.unlink)

(* C6, amended: usage_count is the number of link calls minus the number *)
(* of unlink calls that found the link they name.                         *)
RefCountOfRemovals ==
  get_library_usage(Library, RefId) = calls.link - calls.removed

(* C6: an unlink call found no link, others did, and the entry is in use *)
RefCountWitness ==
  /\ calls.unlink > calls.removed
  /\ calls.removed > 0
  /\ get_library_usage(Library, RefId) > 0

(* C7: archive_library_item on an existing active entry succeeds if and  *)
(* only if usage_count is 0; with usage_count > 0 it fails and leaves the *)
(* library as it is.                                                      *)
ArchiveIffUnused ==
  \A y \in Yids :
    Exists(lib[y]) /\ lib[y][1].meta.present =>
      LET r == archive_library_item(Library, y)
      IN /\ r.ok <=> get_library_usage(Library, y) = 0
         /\ get_library_usage(Library, y) > 0 => r.L = Library

(* C8: deleting a library-backed job whose owner is linked removes that  *)
(* link and lowers usage_count by exactly one.                            *)
DeleteUnlinks ==
  [][\A j \in DOMAIN jobs_storage :
       LET job == jobs_storage[j]
           y == job.youtube_video_id
       IN (/\ j \notin DOMAIN jobs_storage'
           /\ y # None
           /\ j \in DOMAIN links[job.user]
           /\ get_library_usage(Library, y) > 0)
          => /\ j \notin DOMAIN links'[job.user]
             /\ UsageOf(lib'[y]) = get_library_usage(Library, y) - 1]_vars

(* the entry of y leaves the active library in this step *)
Leaves(y) == Exists(lib[y]) /\ ~Exists(lib'[y])

(* the step deletes job j *)
Deletes(j) == j \in DOMAIN jobs_storage /\ j \notin DOMAIN jobs_storage'

UnlinkKeepsEntries ==
  \A u \in Users : \A k \in DOMAIN links[u] :
    LET U == unlink_from_user_library(Library, u, k)
    IN /\ U.arch = arch
       /\ \A y \in Yids : Exists(U.lib[y]) <=> Exists(lib[y])

(* delete_job of a job of y, usage_count reading 0 after its unlink *)
ArchivedByDelete(y) ==
  \E j \in DOMAIN jobs_storage :
    /\ Deletes(j)
    /\ jobs_storage[j].youtube_video_id = y
    /\ get_library_usage(
         unlink_from_user_library(Library, jobs_storage[j].user, y), y) = 0

ShortCircuits(j) ==
  /\ ~HasJob(j)
  /\ j \in DOMAIN jobs_storage'
  /\ jobs_storage'[j].is_library_link

(* C11: a submission that hits the library creates the record as         *)
(* completed with the entry's stems, adds exactly the link (owner,        *)
(* job_id), raises usage_count by exactly 1 and starts no worker and no   *)
(* engine, for every submitting owner, an anonymous one included.         *)
DedupShortCircuit ==
  [][\A j \in JobIds :
       ShortCircuits(j) =>
         LET rec == jobs_storage'[j]
             y == rec.youtube_video_id
         IN /\ rec.status = "completed"
            /\ rec.stems = get_library_stems(Library, y)
            /\ wk' = wk
            /\ engineRuns' = engineRuns
            /\ UsageOf(lib'[y]) = UsageOf(lib[y]) + 1
            /\ rec.user \in Users
            /\ DOMAIN links'[rec.user] = DOMAIN links[rec.user] \cup {j}
            /\ j \notin DOMAIN links[rec.user]
            /\ links'[rec.user][j] = y]_vars

(* C12: a submission short-circuits only onto an entry that has every    *)
(* stem of the request on disk; any other submission creates a job that   *)
(* is not completed and starts a worker.                                  *)
ShortCircuitNeedsStems ==
  [][\A j \in JobIds :
       (~HasJob(j) /\ j \in DOMAIN jobs_storage') =>
         LET rec == jobs_storage'[j]
         IN IF rec.is_library_link
            THEN StemNames \subseteq get_library_stems(Library, rec.youtube_video_id)
            ELSE rec.status # "completed" /\ j \in DOMAIN wk']_vars

(* C13: the first submission of a new dedup-eligible source, with the     *)
(* download done (the job got as far as the Processing stage) and no       *)
(* cancellation, ends completed; its entry is then a lookup hit with       *)
(* usage_count 1.                                                          *)
FirstSubmissionCompletes ==
  \A j \in DOMAIN jobs_storage :
    LET rec == jobs_storage[j]
        y == rec.youtube_video_id
    IN (/\ nextJob = 1
        /\ cache = <<>>
        /\ y # None
        /\ ~rec.is_library_link
        /\ rec.progress >= 25
        /\ ~Running(j))
       => /\ rec.status = "completed"
          /\ check_library_exists(Library, y)
          /\ get_library_usage(Library, y) = 1

(* C14: a worker that has seen the cancellation flag set at one of its    *)
(* checkpoints leaves the job cancelled when it ends, never failed or      *)
(* completed.                                                              *)
CheckpointCancels ==
  [][\A j \in DOMAIN wk :
       (/\ j \notin DOMAIN wk'
        /\ wk[j].result = "Job cancelled by admin"
        /\ j \in DOMAIN jobs_storage')
       => jobs_storage'[j].status = "cancelled"]_vars

(* C15: a cancellation accepted while the Processing Engine call of the  *)
(* job is running is seen after the call: the job does not go on to        *)
(* completed.                                                              *)
EngineCancelObserved ==
  [][\A j \in DOMAIN jobs_storage \cap DOMAIN jobs_storage' :
       jobs_storage[j].status \in {"cancelling", "cancelled"}
         => jobs_storage'[j].status # "completed"]_vars

(* C16, as claimed: the owner of a job that is not terminal can request   *)
(* its cancellation without the admin role, and the request is accepted.   *)
OwnerMayCancel ==
  \A j \in DOMAIN jobs_storage :
    (jobs_storage[j].user \in Users /\ jobs_storage[j].status \notin Terminal)
      => cancel_check(jobs_storage[j].user, j) = 0

(* C16, amended: cancellation is admin-only for every job, the caller's   *)
(* own included: a caller without the admin role is answered 403, and a    *)
(* request is accepted exactly when the caller is an admin and the job     *)
(* exists and is not terminal.                                             *)
CancelIsAdminOnly ==
  \A c \in Callers, j \in JobIds :
    /\ ~IsAdmin(c) => cancel_check(c, j) = 403
    /\ cancel_check(c, j) = 0
         <=> (IsAdmin(c) /\ HasJob(j) /\ jobs_storage[j].status \notin Terminal)

(* C16: an admin's cancellation of a user's running job is under way,     *)
(* while the owner's own request for it is refused                         *)
OwnerRefusedWitness ==
  \E j \in DOMAIN jobs_storage :
    /\ jobs_storage[j].user \in Users
    /\ jobs_storage[j].status \notin Terminal
    /\ j \in DOMAIN cancelH
    /\ cancel_check(jobs_storage[j].user, j) = 403

(* C17: for an active entry with usage_count 0, restore_from_archive      *)
(* after a successful archive_library_item gives back an active entry      *)
(* with the same stems, metadata and usage_count, the archive stamps       *)
(* cleared, and a lookup that hit before hits again.                       *)
ArchiveRestoreRoundTrip ==
  \A y \in Yids :
    (Exists(lib[y]) /\ lib[y][1].meta.present /\ get_library_usage(Library, y) = 0)
      => LET a == archive_library_item(Library, y)
             r == restore_from_archive(a.L, y)
         IN a.ok => /\ r.ok
                    /\ Exists(r.L.lib[y])
                    /\ r.L.lib[y][1] = Unstamp(lib[y])[1]
                    /\ check_library_exists(Library, y)
                         => check_library_exists(r.L, y)

(* the library's files after the step *)
LibraryAfter == [links |-> links', lib |-> lib', arch |-> arch']

(* archive_library_item succeeds in this step: the archive of y receives *)
(* the entry                                                              *)
ArchiveSucceeds(y) ==
  Exists(lib[y]) /\ Exists(arch'[y]) /\ arch'[y] # arch[y]

(* the step moves the archived directory of y back into the library *)
RestoreSucceeds(y) ==
  /\ Exists(arch[y])
  /\ ~Exists(arch'[y])
  /\ Exists(lib'[y])
  /\ lib'[y][1] = Unstamp(arch[y])[1]

(* C18: a lookup misses from the moment archive_library_item succeeds;    *)
(* while library/<id> is gone a miss turns into a hit only when            *)
(* restore_from_archive succeeds (anything else first has to make the      *)
(* directory anew, and that alone is never a hit).                         *)
LookupMissesArchived ==
  [][\A y \in Yids :
       /\ ArchiveSucceeds(y) => ~check_library_exists(LibraryAfter, y)
       /\ (~Exists(lib[y]) /\ check_library_exists(LibraryAfter, y))
            => RestoreSucceeds(y)]_vars

(* C18: an archived entry with metadata and a required stem, which a     *)
(* lookup would accept, while the lookup of its id misses                  *)
ArchivedHitWitness ==
  \E y \in Yids :
    /\ Exists(arch[y])
    /\ arch[y][1].meta.present
    /\ arch[y][1].stems \cap required_files # {}
    /\ ~Exists(lib[y])
    /\ ~check_library_exists(Library, y)

(* C19: concurrent link_to_user_library calls by different owners on one *)
(* id lose no update: whenever no call is in progress, the id has one      *)
(* link per call made and usage_count equals the number of calls.          *)
LinkIsAtomic ==
  linkers = <<>>
    => /\ get_library_usage(Library, RefId) = calls.link
       /\ Cardinality(LinksTo(RefId)) = calls.link

(* C19: two owners' calls overlap: one is between its read and its write *)
(* of usage_count while the other has been called and waits for the lock   *)
LinkRaceWitness ==
  \E t \in DOMAIN linkers, w \in DOMAIN linkers :
    /\ linkers[t].pc = "write"
    /\ linkers[w].pc = "acquire"
    /\ library_lock = t

(* C20: recovery merge is non-destructive.  A scan_existing_outputs     *)
(* run (here the one GET /jobs makes) changes no field of a record whose *)
(* status is non-terminal, whatever files the running job has written    *)
(* into its directory.                                                   *)
ScanKeepsInFlight ==
  [][(\E c \in Callers \cup {None} : list_jobs(c))
       => \A j \in DOMAIN jobs_storage :
            jobs_storage[j].status \notin Terminal
              => /\ j \in DOMAIN jobs_storage'
                 /\ jobs_storage'[j] = jobs_storage[j]]_vars

(* C21: scanner idempotence.  Over an unchanged filesystem a second     *)
(* scan_existing_outputs leaves the registry exactly as the first left   *)
(* it, with one record for every job directory that holds audio files.   *)
ScanIdempotent ==
  \A u \in Sessions :
    LET once == scan_existing_outputs(jobs_storage, outputs, u)
        twice == scan_existing_outputs(once, outputs, u)
    IN /\ twice = once
       /\ ScanDirs(outputs, u) \subseteq DOMAIN once

(* a scan that both fills the stems of a record and creates a record for *)
(* a directory that has none                                             *)
ScanActsWitness ==
  \E u \in Sessions :
    LET once == scan_existing_outputs(jobs_storage, outputs, u)
    IN /\ \E j \in DOMAIN jobs_storage : once[j] # jobs_storage[j]
       /\ DOMAIN once # DOMAIN jobs_storage

(* C22: a failure of the Analysis Engine never fails the job.  A worker *)
(* (upload or URL) whose analysis raised goes on to the processing stage *)
(* and to the Processing Engine call, from which the job can end         *)
(* completed: it enters an except clause only when the job was cancelled *)
(* or its record is gone.                                                *)
AnalysisFailed(j) == Running(j) /\ wk[j].result = "Music analysis failed"

AnalysisFailureProceeds ==
  [][\A j \in JobIds :
       (/\ AnalysisFailed(j)
        /\ j \in DOMAIN wk'
        /\ wk'[j].pc # wk[j].pc
        /\ wk'[j].pc \in {"u_except", "pd_except", "dl_except"})
         => (~HasJob(j) \/ is_job_cancelled(cancel_flags, j))]_vars

(* C23: a Processing Engine or Source Acquisition failure is never     *)
(* silently discarded.  A record that carries the error of such a stage  *)
(* has status failed, and a worker that leaves its except clause after   *)
(* such a failure has stored the error in the record.                    *)
StageErrors == {"DownloadError", "SeparationError"}

StageFailureRecorded ==
  [][\A j \in JobIds :
       /\ (HasJob(j) /\ Running(j) /\ wk[j].result \in StageErrors
             /\ j \notin DOMAIN wk')
            => (j \in DOMAIN jobs_storage' /\ jobs_storage'[j].error = wk[j].result)
       /\ (j \in DOMAIN jobs_storage' /\ jobs_storage'[j].error \in StageErrors)
            => jobs_storage'[j].status = "failed"]_vars

(* C24: the progress of a job never decreases.  Every step that keeps a *)
(* job's record leaves its progress at least as high as it was, unless   *)
(* the step is the terminal failed / cancelled override.                 *)
ProgressMonotone ==
  [][\A j \in DOMAIN jobs_storage :
       (j \in DOMAIN jobs_storage'
        /\ jobs_storage'[j].status \notin {"failed", "cancelled"})
         => jobs_storage'[j].progress >= jobs_storage[j].progress]_vars

(* C25: permanent deletion is two-phase and restricted to archived      *)
(* entries.  A call without the confirmation flag changes nothing and    *)
(* describes the archived item; a confirmed call removes the entry only  *)
(* when it is in the archive; no call removes or alters an active        *)
(* library entry or a link.                                              *)
PermanentDeleteIsSafe ==
  \A c \in Callers, y \in Yids, confirm \in BOOLEAN :
    LET r == delete_archived_request(Library, c, y, confirm)
    IN /\ r.L.lib = lib
       /\ r.L.links = links
       /\ ~confirm => /\ r.L = Library
                      /\ (IsAdmin(c) /\ Exists(arch[y])) => r.code = 200
       /\ r.L # Library
            => /\ confirm /\ IsAdmin(c) /\ Exists(arch[y])
               /\ r.L.arch = [arch EXCEPT ![y] = NoDir]
       /\ (confirm /\ IsAdmin(c) /\ ~Exists(arch[y])) => r.code = 500

(* an id that is active and linked and, from an earlier life, also in    *)
(* the archive: a confirmed call deletes the archived copy only          *)
PermanentDeleteWitness ==
  \E y \in Yids :
    /\ Exists(lib[y]) /\ lib[y][1].meta.present
    /\ Exists(arch[y])
    /\ LinksTo(y) # {}
    /\ delete_archived_request(Library, "root", y, TRUE).L # Library

(* C26: entitlement filtering.  The stems dispatched to the Processing  *)
(* Engine and the stems a job offers (a library-link job included) are   *)
(* among the stem types of the caller's plan, for every requested set    *)
(* and mode; a request for stems outside the plan is not refused, and    *)
(* the stems dropped from it are recorded in the job record.             *)
EntitlementFiltering ==
  /\ ent.pc \in {"dispatched", "done"} => ent.target \subseteq stem_types(ent.plan)
  /\ ent.pc = "done" => ent.stems \subseteq stem_types(ent.plan)
  /\ ent.pc # "idle"
       => dropped_in_record(ent.rec) = ent.requested \ stem_types(ent.plan)

(* C27: a record carries a content id only when the job's stems live in *)
(* a shared library entry.  A job whose output goes to the owner's       *)
(* private area (a source without a YouTube id, or a preview) never has  *)
(* youtube_video_id or is_library_link set, and deleting it leaves the   *)
(* library and the links as they are.                                    *)
PrivateOutput(j) == Running(j) /\ wk[j].kind = "url" /\ ~wk[j].to_library

ContentIdIffLibrary ==
  [][\A j \in DOMAIN jobs_storage :
       PrivateOutput(j)
         => /\ jobs_storage[j].youtube_video_id = None
            /\ ~jobs_storage[j].is_library_link
            /\ j \notin DOMAIN jobs_storage'
                 => UNCHANGED <<links, lib, arch>>]_vars

(* C28: every record whose status is failed or cancelled has its error  *)
(* field populated, whichever path put it into that state.               *)
TerminalHasError ==
  \A j \in DOMAIN jobs_storage :
    jobs_storage[j].status \in {"failed", "cancelled"}
      => jobs_storage[j].error # None

(* C29: batch jobs of one user are processed one at a time: at most one *)
(* job taken from the user's batch queue is in a non-terminal status.    *)
BatchOneAtATime ==
  \A u \in Users :
    Cardinality({j \in DOMAIN jobs_storage :
                   /\ jobs_storage[j].is_batch
                   /\ jobs_storage[j].user = u
                   /\ jobs_storage[j].status \notin Terminal}) <= 1

(* C30: POST /api/split with a file of a supported format that passes   *)
(* audio validation creates exactly one record, queued with progress 0,  *)
(* and answers 200 with that job id and status queued; a file of an      *)
(* unsupported format gets 400 and no record; GET /api/status for an id  *)
(* that is not in the registry gets 404.                                 *)
ApiSubmitContract ==
  /\ \A file \in ApiFiles, quality \in QualityMode, mode \in SeparationMode :
       LET id == NewJobId
           r == split_audio(jobs, background_tasks, id, file, quality, mode)
       IN /\ (file.ext \in SUPPORTED_FORMATS /\ validate_audio(file).items[1])
               => /\ r.code = 200
                  /\ id \notin DOMAIN jobs
                  /\ DOMAIN r.jobs = DOMAIN jobs \cup {id}
                  /\ r.jobs[id].status = "queued"
                  /\ r.jobs[id].progress = 0
                  /\ r.body.job_id = id
                  /\ r.body.status = "queued"
          /\ lower(file.ext) \notin SUPPORTED_FORMATS
               => /\ r.code = 400
                  /\ r.jobs = jobs
  /\ \A id \in JobIds :
       id \notin DOMAIN jobs => get_job_status(jobs, id).code = 404

(* C31: cancellation flags do not outlive their job.  Once the worker of *)
(* a job has ended and the record's status is completed, failed or       *)
(* cancelled, cancel_flags holds no entry for the job id.                 *)
FlagsDiscarded ==
  \A j \in DOMAIN jobs_storage :
    (jobs_storage[j].status \in Terminal /\ ~Running(j))
      => j \notin DOMAIN cancel_flags

(* C32: every write to jobs_storage, those of scan_existing_outputs      *)
(* called from a request handler included, is made with jobs_lock held.  *)
AllWritesLocked == unlocked_writes = {}

(* C33: no dangling link across the lookup-to-link gap.  The link step *)
(* of a short-circuit submission never leaves the caller with a link to *)
(* an entry that has been archived, and no archived entry has a usage    *)
(* count above 0.                                                        *)
LookupLinkGap ==
  [][\A j \in DOMAIN hits :
       (hits[j].pc = "link" /\ j \in DOMAIN hits' /\ hits'[j].pc = "record")
         => /\ ~(/\ j \in DOMAIN links'[hits[j].user]
                 /\ ~Exists(lib'[hits[j].yid])
                 /\ Exists(arch'[hits[j].yid]))
            /\ UsageOf(arch'[hits[j].yid]) = 0]_vars

(* C34: link only on success.  A step that creates the user link of a   *)
(* job whose record exists leaves that record completed: a job that has  *)
(* failed or was cancelled gets no link and adds nothing to the usage    *)
(* count of its content id.                                              *)
LinkOnlyOnSuccess ==
  [][\A u \in Users, j \in JobIds :
       (/\ j \notin DOMAIN links[u]
        /\ j \in DOMAIN links'[u]
        /\ j \in DOMAIN jobs_storage')
         => jobs_storage'[j].status = "completed"]_vars

(* C35: every job eventually terminates.  With threads scheduled fairly *)
(* a record that is not terminal, one set to cancelling included,        *)
(* eventually reaches completed, failed or cancelled.                    *)
EventuallyTerminal ==
  \A j \in JobIds :
    (j \in DOMAIN jobs_storage /\ jobs_storage[j].status \notin Terminal)
      ~> (j \in DOMAIN jobs_storage /\ jobs_storage[j].status \in Terminal)

(* C36: delete is final.  A job id that has no record gets one only      *)
(* when it is the id drawn by the submission being made: the record of a *)
(* deleted job never reappears, whatever its worker and the scans do.    *)
DeleteIsFinal ==
  [][\A j \in JobIds :
       (j \notin DOMAIN jobs_storage /\ j \in DOMAIN jobs_storage')
         => (nextJob < MaxJobs /\ j = NewJobId /\ nextJob' = nextJob + 1)]_vars

(* C37: an entry has exactly one state.  A content id is never present  *)
(* both in the active library and in the archive, and neither directory  *)
(* ever holds a second copy of the entry inside it.                      *)
OneStatePerEntry ==
  \A y \in Yids :
    /\ ~(Exists(lib[y]) /\ Exists(arch[y]))
    /\ Len(lib[y]) <= 1
    /\ Len(arch[y]) <= 1

(* C38: no lost usage_count update.  The metadata write of a worker (in *)
(* download_and_process_url or in the popular-songs cache) leaves the    *)
(* usage count of the entry as it was just before the write, so an       *)
(* increment or decrement made by a concurrent link or unlink survives.  *)
MetaWrite(y) ==
  \/ \E j \in DOMAIN wk :
       /\ wk[j].pc = "save_meta" /\ wk[j].to_library /\ wk[j].yid = y
       /\ j \in DOMAIN wk' /\ wk'[j].pc = "analyze"
  \/ CacheAt(y, "k_meta") /\ y \notin DOMAIN cache'

NoLostUsageUpdate ==
  [][\A y \in Yids :
       MetaWrite(y) => UsageOf(lib'[y]) = UsageOf(lib[y])]_vars

(* C39: batch queue delivery.  An entry of a batch queue is eventually   *)
(* popped or removed; a popped entry gets a record that eventually       *)
(* reaches a terminal status; only an entry taken from the queue is      *)
(* run, and only a job being run gets a record, so an entry that was     *)
(* removed from the queue is never processed.                            *)
Queued(j) ==
  \E u \in Users : \E i \in DOMAIN batch_queues[u] : batch_queues[u][i].job_id = j

Popped(j) == \E t \in DOMAIN batch : batch[t].job.job_id = j

BatchDelivery ==
  /\ \A j \in JobIds : Queued(j) ~> ~Queued(j)
  /\ \A j \in JobIds :
       Popped(j) ~> (j \in DOMAIN jobs_storage
                     /\ jobs_storage[j].status \in Terminal)
  /\ [][\A j \in JobIds :
          /\ (~Popped(j) /\ Popped(j)') => Queued(j)
          /\ (j \notin DOMAIN jobs_storage /\ j \in DOMAIN jobs_storage')
               => Popped(j)]_vars

(* C40: no interleaving of request handlers, job workers and queue       *)
(* processors deadlocks on jobs_lock, library_lock, cancel_flags_lock    *)
(* and batch_queue_lock: there is never a set of threads each waiting    *)
(* for a lock held inside the set.  A thread that takes a lock while it  *)
(* holds another holds jobs_lock alone and takes library_lock, and no    *)
(* thread takes a lock it holds.                                         *)
Held(t) == {lock \in LockNames : Holder(lock) = t}

Waiting(t) == AtOp(t, "acquire") /\ ~CanAcquire(Holder(NextOp(t).lock))

DeadlockFree ==
  /\ \A S \in SUBSET DOMAIN threads :
       S # {} => \E t \in S : ~(Waiting(t) /\ Holder(NextOp(t).lock) \in S)
  /\ \A t \in DOMAIN threads :
       AtOp(t, "acquire") =>
         /\ NextOp(t).lock \notin Held(t)
         /\ Held(t) # {} => (Held(t) = {"jobs_lock"} /\ NextOp(t).lock = "library_lock")

(* delete_job holds jobs_lock and library_lock together while another *)
(* thread waits for jobs_lock                                         *)
DeadlockFreeWitness ==
  \E t \in DOMAIN threads, w \in DOMAIN threads :
    /\ threads[t].handler = "delete_job"
    /\ Held(t) = {"jobs_lock", "library_lock"}
    /\ Waiting(w) /\ NextOp(w).lock = "jobs_lock"

(* C10: a caller who is neither owner nor admin gets the same answer     *)
(* from status, cancel and delete for a job of somebody else as for a     *)
(* job id that does not exist.                                            *)
OwnershipIsolation ==
  \A c \in Users : \A j \in JobIds, k \in JobIds :
    (HasJob(j) /\ jobs_storage[j].user # c /\ ~HasJob(k))
      => /\ get_status(c, j) = get_status(c, k)
         /\ cancel_check(c, j) = cancel_check(c, k)
         /\ delete_job_code(c, j) = delete_job_code(c, k)

====
